---- MODULE Spec2Model ----
(***************************************************************************)
(* A model of the monitor-live dashboard's aggregation and consistency     *)
(* core: the canonical document store (stream document, messages, minute   *)
(* aggregates), the client-local override set kept in localStorage, the    *)
(* stream card (LiveCard) and the detail view (LivePage) with their        *)
(* subscriptions and their dismiss operation, the stream registry of the   *)
(* home page, and the technical-rate computation.                          *)
(***************************************************************************)
EXTENDS Integers, Sequences, FiniteSets, TLC

\* ------------------------------------------------------------------ bounds

\* Number of message identifiers of the modelled stream.
NMsgs == 2
\* Number of injected faults (rejected canonical writes, throwing setItem).
MaxFaults == 1

\* Number of stream identifiers of the registry's ordering runs.
NStreams == 3
\* Number of stream identifiers of the registry's liveness runs.
NLive == 1
\* Largest total_comments and largest number of visible technical messages of
\* the rate runs.
MaxTotal == 100
MaxVisible == 23
NVideos == 2
\* Number of message identifiers of the raw-message chart runs.
NChartMsgs == 4
\* Number of messages of the long stream beyond the limit of the technical
\* query, and number of dismiss calls on it.
NExtra == 2
MaxWindowDismissals == 2
\* How far below the limit of the technical query the long stream may be
\* when its card is mounted.
NBelow == 1
\* Number of stream documents of the history runs.
NHistory == 2

Msgs == 1..NMsgs
Views == {"card", "detail"}
\* null as a string field (category, issue), as a minute or issue key, and
\* as the result of localStorage.getItem.
Null == "null"
NoKey == <<>>
NoItem == [present |-> FALSE, items |-> <<>>]

\* ------------------------------------------------------ message documents

\* ts of a message document, as <<HH, MM, SS>>; <<>> is the empty string the
\* snapshot mapping substitutes for a missing ts (raw.ts ?? "").
MsgTs(m) ==
  CASE m % 4 = 1 -> <<10, 0, 5>>
    [] m % 4 = 2 -> <<10, 0, 9>>
    [] m % 4 = 3 -> <<>>
    [] OTHER     -> <<10, 1, 2>>

\* category of a message document (raw.category ?? null).
MsgCategory(m) ==
  CASE m % 4 = 1 -> "audio"
    [] m % 4 = 2 -> "video"
    [] m % 4 = 3 -> "audio"
    [] OTHER     -> Null

\* issue of a message document (raw.issue ?? null).
MsgIssue(m) ==
  CASE m % 4 = 1 -> "sem_som"
    [] m % 4 = 2 -> Null
    [] m % 4 = 3 -> "sem_som"
    [] OTHER     -> "buffer"

\* The Comment object a snapshot callback builds from a message document.
Comment(m) ==
  [id |-> m, ts |-> MsgTs(m), category |-> MsgCategory(m), issue |-> MsgIssue(m)]

\* minuteKeyFromTs: the "HH:mm" key of a parseable ts, null for an invalid date.
minuteKeyFromTs(ts) ==
  IF Len(ts) # 3 THEN NoKey ELSE <<ts[1], ts[2]>>

\* The issue_counts field a dismiss decrements: "category:issue" when both are
\* present, otherwise none.
IssueKey(c) ==
  IF c.category # Null /\ c.issue # Null THEN <<c.category, c.issue>> ELSE NoKey

\* The minute of the messages that are not technical.
OtherMinute == <<9, 59>>

MinuteKeys == ({minuteKeyFromTs(MsgTs(m)) : m \in Msgs} \ {NoKey}) \cup {OtherMinute}
IssueKeys == {IssueKey(Comment(m)) : m \in Msgs} \ {NoKey}

\* a.localeCompare(b) on ts strings: -1, 0 or 1, position by position, a
\* proper prefix first.
RECURSIVE localeCompare(_, _)
localeCompare(a, b) ==
  IF a = <<>> /\ b = <<>> THEN 0
  ELSE IF a = <<>> THEN -1
  ELSE IF b = <<>> THEN 1
  ELSE IF Head(a) < Head(b) THEN -1
  ELSE IF Head(a) > Head(b) THEN 1
  ELSE localeCompare(Tail(a), Tail(b))

Range(s) == {s[i] : i \in 1..Len(s)}

\* The identifiers of S in ascending order: the order of snap.docs for a
\* query without orderBy, and of JSON.stringify([...set]) up to insertion
\* order.
RECURSIVE Ascending(_)
Ascending(S) ==
  IF S = {} THEN <<>>
  ELSE LET x == CHOOSE y \in S : \A z \in S : y <= z
       IN <<x>> \o Ascending(S \ {x})

\* Array.prototype.sort with a comparator: stable, so the element at index i
\* goes after every element that compares before it and after every equal
\* element of a lower index.
StableSort(s, Cmp(_, _)) ==
  LET n == Len(s)
      rank == [i \in 1..n |->
                 Cardinality({j \in 1..n : LET c == Cmp(s[j], s[i])
                                           IN c < 0 \/ (c = 0 /\ j < i)}) + 1]
  IN [k \in 1..n |-> s[CHOOSE i \in 1..n : rank[i] = k]]

Sign(n) == IF n < 0 THEN -1 ELSE IF n > 0 THEN 1 ELSE 0

\* Array.prototype.filter.
Filter(s, Keep(_)) == SelectSeq(s, Keep)

\* ------------------------------------------------------------ categories

\* Strings are sequences of characters. The letters that toUpperCase
\* changes, and what it changes them to, position by position.
LowerCase == <<"a", "b", "c", "d", "e", "f", "g", "h", "i", "j", "k", "l", "m", "n", "o", "p", "q", "r", "s", "t", "u", "v", "w", "x", "y", "z", "á", "í">>
UpperCase == <<"A", "B", "C", "D", "E", "F", "G", "H", "I", "J", "K", "L", "M", "N", "O", "P", "Q", "R", "S", "T", "U", "V", "W", "X", "Y", "Z", "Á", "Í">>

\* The characters \w matches: ASCII letters, digits and the underscore.
WordChars ==
  {LowerCase[i] : i \in 1..26} \cup {UpperCase[i] : i \in 1..26}
  \cup {"0", "1", "2", "3", "4", "5", "6", "7", "8", "9", "_"}

\* String.prototype.toUpperCase.
toUpperCase(str) ==
  [i \in 1..Len(str) |->
     IF \E k \in 1..Len(LowerCase) : LowerCase[k] = str[i]
     THEN UpperCase[CHOOSE k \in 1..Len(LowerCase) : LowerCase[k] = str[i]]
     ELSE str[i]]

\* String.prototype.trim: without the spaces at both ends.
trim(str) ==
  IF \A i \in 1..Len(str) : str[i] = " " THEN <<>>
  ELSE SubSeq(str,
              CHOOSE i \in 1..Len(str) : str[i] # " " /\ \A j \in 1..(i - 1) : str[j] = " ",
              CHOOSE i \in 1..Len(str) : str[i] # " " /\ \A j \in (i + 1)..Len(str) : str[j] = " ")

\* pat occurs in str at position i.
OccursAt(str, pat, i) ==
  i >= 1 /\ i + Len(pat) - 1 <= Len(str) /\ SubSeq(str, i, i + Len(pat) - 1) = pat

\* \b at the gap before position i of str: exactly one of the characters on
\* its two sides is a word character.
Boundary(str, i) ==
  (i - 1 >= 1 /\ str[i - 1] \in WordChars) # (i <= Len(str) /\ str[i] \in WordChars)

\* RegExp.prototype.test for an alternation of literals.
Test(str, alternatives) ==
  \E pat \in alternatives : \E i \in 1..Len(str) : OccursAt(str, pat, i)

\* /AUDIO|ÁUDIO|SOM\b|NARR/
TestAudio(u) ==
  \/ Test(u, {<<"A", "U", "D", "I", "O">>, <<"Á", "U", "D", "I", "O">>, <<"N", "A", "R", "R">>})
  \/ \E i \in 1..Len(u) : OccursAt(u, <<"S", "O", "M">>, i) /\ Boundary(u, i + 3)

\* /VIDEO|VÍDEO|TELA|PIXEL|IMAG|CONGEL/
TestVideo(u) ==
  Test(u, {<<"V", "I", "D", "E", "O">>,
   <<"V", "Í", "D", "E", "O">>,
   <<"T", "E", "L", "A">>,
   <<"P", "I", "X", "E", "L">>,
   <<"I", "M", "A", "G">>,
   <<"C", "O", "N", "G", "E", "L">>})

\* /REDE|PLATAFORMA|BUFFER|CAIU|PLAT/
TestRede(u) ==
  Test(u, {<<"R", "E", "D", "E">>,
   <<"P", "L", "A", "T", "A", "F", "O", "R", "M", "A">>,
   <<"B", "U", "F", "F", "E", "R">>,
   <<"C", "A", "I", "U">>,
   <<"P", "L", "A", "T">>})

\* /\bGC\b|PLACAR/
TestGc(u) ==
  \/ Test(u, {<<"P", "L", "A", "C", "A", "R">>})
  \/ \E i \in 1..Len(u) : OccursAt(u, <<"G", "C">>, i) /\ Boundary(u, i) /\ Boundary(u, i + 2)

\* A category string or label, and null.
Text(str) == [null |-> FALSE, text |-> str]
NullText == [null |-> TRUE, text |-> <<>>]

\* JavaScript truthiness of a string or null.
Truthy(t) == ~t.null /\ t.text # <<>>

\* A normalization that tries the video patterns before the audio patterns.
normalizeVideoFirst(raw) ==
  IF ~Truthy(raw) THEN NullText
  ELSE IF TestVideo(trim(toUpperCase(raw.text))) THEN Text(<<"V", "I", "D", "E", "O">>)
  ELSE IF TestAudio(trim(toUpperCase(raw.text))) THEN Text(<<"A", "U", "D", "I", "O">>)
  ELSE IF TestRede(trim(toUpperCase(raw.text))) THEN Text(<<"R", "E", "D", "E">>)
  ELSE IF TestGc(trim(toUpperCase(raw.text))) THEN Text(<<"G", "C">>)
  ELSE Text(trim(toUpperCase(raw.text)))

\* normalizeCategory.
normalizeCategory(raw) ==
  IF ~Truthy(raw) THEN NullText
  ELSE IF TestAudio(trim(toUpperCase(raw.text))) THEN Text(<<"A", "U", "D", "I", "O">>)
  ELSE IF TestVideo(trim(toUpperCase(raw.text))) THEN Text(<<"V", "I", "D", "E", "O">>)
  ELSE IF TestRede(trim(toUpperCase(raw.text))) THEN Text(<<"R", "E", "D", "E">>)
  ELSE IF TestGc(trim(toUpperCase(raw.text))) THEN Text(<<"G", "C">>)
  ELSE Text(trim(toUpperCase(raw.text)))

\* What comes before the word of a category string of the normalization runs.
CategoryPrefixes ==
  {<<>>,
   <<" ">>,
   <<"x">>,
   <<"_">>,
   <<"-", " ">>}

\* The words of the category strings of the normalization runs: one for each
\* pattern, in lower, upper or mixed case, a word no pattern matches, and blanks.
CategoryCores ==
  {<<"a", "u", "d", "i", "o">>,
   <<"A", "U", "D", "I", "O">>,
   <<"á", "u", "d", "i", "o">>,
   <<"S", "o", "m">>,
   <<"s", "o", "m">>,
   <<"n", "a", "r", "r">>,
   <<"v", "i", "d", "e", "o">>,
   <<"V", "í", "d", "e", "o">>,
   <<"t", "e", "l", "a">>,
   <<"p", "i", "x", "e", "l">>,
   <<"i", "m", "a", "g">>,
   <<"c", "o", "n", "g", "e", "l">>,
   <<"r", "e", "d", "e">>,
   <<"p", "l", "a", "t", "a", "f", "o", "r", "m", "a">>,
   <<"b", "u", "f", "f", "e", "r">>,
   <<"c", "a", "i", "u">>,
   <<"p", "l", "a", "t">>,
   <<"g", "c">>,
   <<"G", "C">>,
   <<"p", "l", "a", "c", "a", "r">>,
   <<"o", "u", "t", "r", "o">>,
   <<" ", " ">>,
   <<>>}

\* What comes after the word: nothing, a space, a letter, an underscore, a
\* video word, a punctuation mark.
CategorySuffixes ==
  {<<>>,
   <<" ">>,
   <<"s">>,
   <<"_">>,
   <<" ", "t", "e", "l", "a">>,
   <<"!">>}

\* The category values of the normalization runs: null and every string
\* prefix + word + suffix.
CategoryInputs ==
  {NullText} \cup {Text(a \o b \o c) : a \in CategoryPrefixes, b \in CategoryCores,
                                      c \in CategorySuffixes}

\* ------------------------------------------------------------------ state

VARIABLES
  msgTech,            \* store: per message, "none" | "tech" | "nontech"
  live,               \* store: the stream document's counters
  minutes,            \* store: minute-bucket documents, by minute key
  storage,            \* localStorage item dismissed_<streamId>
  mounted,            \* per view: is the component mounted
  dismissed,          \* per view: the in-memory override set
  allTechComments,    \* per view: last technical-message snapshot
  techSnapshotReady,  \* card: techSnapshotReadyRef.current
  chartData,          \* card: chartData state
  alertKey,           \* card: alertKey state
  call,               \* per view and message: position of a dismiss call
  errLog,             \* number of console.error calls of dismiss
  storageFaults,      \* number of setItem calls that threw
  orderRef,           \* registry: orderRef.current
  lives,              \* registry: lives state
  connected,          \* registry: connected state
  subscribed,         \* registry: the listener has not been ended by an error
  hidden,             \* registry: hidden state
  hiddenItem,         \* localStorage item hidden_lives
  now,                \* the clock read by Date.now(), in ms
  renderedAt,         \* registry: Date.now() of the last render
  active,             \* registry: the active list of the last render
  total_comments,     \* rate: live.total_comments of the card
  totalTechCount,     \* rate: visibleComments.length of the card
  techRateShown,      \* rate: techRate of the last render
  raw,                \* classifier: the argument of normalizeCategory
  normalized,         \* classifier: the call's result, once it has returned
  listeners,          \* the open onSnapshot listeners
  videoId,            \* per view, the stream identifier it is given
  chartComments,      \* raw-message chart: the comments given to buildChartData
  builtChart,         \* raw-message chart: what buildChartData returned
  longTech,           \* long stream, store: the messages with is_technical
  longLive,           \* long stream, store: the stream document's counters
  lastId,             \* long stream, store: the newest message stored
  windowStorage,      \* long stream: localStorage item dismissed_<streamId>
  windowTechComments, \* card with the limited query: last technical snapshot
  windowDismissed,    \* card with the limited query: the override set
  prevTechCountRef,   \* card with the limited query: prevTechCountRef.current
  windowAlertKey,     \* card with the limited query: alertKey state
  windowCall,         \* card with the limited query: dismiss calls in flight
  livesDocs,          \* store: the documents of the lives collection
  historyLives        \* history page: lives state

storeVars == <<msgTech, live, minutes>>
viewVars == <<mounted, dismissed, allTechComments, techSnapshotReady, chartData, alertKey>>
streamVars == <<msgTech, live, minutes, storage, mounted, dismissed, allTechComments,
                techSnapshotReady, chartData, alertKey, call, errLog, storageFaults>>
regVars == <<orderRef, lives, connected, subscribed, hidden, hiddenItem, now, renderedAt,
             active>>
rateVars == <<total_comments, totalTechCount, techRateShown>>
catVars == <<raw, normalized>>
listenVars == <<listeners, videoId>>
buildVars == <<chartComments, builtChart>>
windowVars == <<longTech, longLive, lastId, windowStorage, windowTechComments,
                windowDismissed, prevTechCountRef, windowAlertKey, windowCall>>
historyVars == <<livesDocs, historyLives>>
vars == <<streamVars, regVars, rateVars, catVars, listenVars, buildVars, windowVars,
          historyVars>>

\* JSON.stringify([...next]): the array written to localStorage.
Serialize(S) == [present |-> TRUE, items |-> Ascending(S)]
\* new Set(JSON.parse(stored)).
Parse(item) == Range(item.items)

\* The stream of the model before its first message, no view mounted.
StreamInit ==
  /\ msgTech = [m \in Msgs |-> "none"]
  /\ live = [total_comments |-> 0, technical_comments |-> 0,
             issue_counts |-> [k \in IssueKeys |-> 0]]
  /\ minutes = [k \in MinuteKeys |-> [exists |-> FALSE, total |-> 0, technical |-> 0]]
  /\ storage = NoItem
  /\ mounted = [v \in Views |-> FALSE]
  /\ dismissed = [v \in Views |-> {}]
  /\ allTechComments = [v \in Views |-> <<>>]
  /\ techSnapshotReady = FALSE
  /\ chartData = <<>>
  /\ alertKey = 0
  /\ call = [v \in Views |-> [m \in Msgs |-> "idle"]]
  /\ errLog = 0
  /\ storageFaults = 0

\* ---------------------------------------------------------- the collector

\* The minute documents after one more message at minute key mk: the bucket
\* is created on its first message.
BucketAdd(mk, dTotal, dTech) ==
  [minutes EXCEPT ![mk] = [exists |-> TRUE, total |-> @.total + dTotal,
                           technical |-> @.technical + dTech]]

\* The collector stores a new technical message and counts it on the stream
\* document and in its minute bucket.
Arrive(m) ==
  /\ msgTech[m] = "none"
  /\ msgTech' = [msgTech EXCEPT ![m] = "tech"]
  /\ LET c == Comment(m)
         k == IssueKey(c)
         mk == minuteKeyFromTs(c.ts)
     IN /\ live' = [total_comments |-> live.total_comments + 1,
                    technical_comments |-> live.technical_comments + 1,
                    issue_counts |-> IF k = NoKey THEN live.issue_counts
                                     ELSE [live.issue_counts EXCEPT ![k] = @ + 1]]
        /\ minutes' = IF mk = NoKey THEN minutes ELSE BucketAdd(mk, 1, 1)
  /\ UNCHANGED <<regVars, rateVars, catVars, buildVars, windowVars, historyVars, listenVars>>
  /\ UNCHANGED <<storage, viewVars, call, errLog, storageFaults>>

\* The collector stores a message that is not technical: it counts in the
\* stream's total and in the total of its minute bucket only. One such
\* message is enough to give the chart a bucket without technical messages.
ArriveOther ==
  /\ ~minutes[OtherMinute].exists
  /\ live' = [live EXCEPT !.total_comments = @ + 1]
  /\ minutes' = BucketAdd(OtherMinute, 1, 0)
  /\ UNCHANGED <<regVars, rateVars, catVars, buildVars, windowVars, historyVars, listenVars>>
  /\ UNCHANGED <<msgTech, storage, viewVars, call, errLog, storageFaults>>

\* ------------------------------------------------------------ derived view

\* The documents of the query where("is_technical", "==", true), in
\* document-identifier order.
TechDocs == Ascending({m \in Msgs : msgTech[m] = "tech"})

\* A visible list that keeps the snapshot's document order.
visibleCommentsUnsorted(v) ==
  Filter(allTechComments[v], LAMBDA m : m \notin dismissed[v])

\* visibleComments of the card, displayed (filter "technical") of the detail
\* view: the last snapshot without the dismissed, newest first by ts.
visibleComments(v) ==
  StableSort(Filter(allTechComments[v], LAMBDA m : m \notin dismissed[v]),
             LAMBDA a, b : localeCompare(MsgTs(b), MsgTs(a)))

\* The minute keys of the existing bucket documents in document order.
RECURSIVE KeysAscending(_)
KeysAscending(K) ==
  IF K = {} THEN <<>>
  ELSE LET x == CHOOSE y \in K : \A z \in K : localeCompare(y, z) <= 0
       IN <<x>> \o KeysAscending(K \ {x})

\* The chart points the minute-aggregate callback builds from a snapshot.
MinutePoints ==
  LET docs == KeysAscending({k \in MinuteKeys : minutes[k].exists})
      valid == Filter(docs, LAMBDA k : Len(k) = 2)
      points == [i \in 1..Len(valid) |->
                   [minute |-> valid[i], total |-> minutes[valid[i]].total,
                    technical |-> minutes[valid[i]].technical]]
  IN StableSort(points, LAMBDA a, b : localeCompare(a.minute, b.minute))

Max(a, b) == IF a >= b THEN a ELSE b

\* The characters of the category values of the message documents.
Spelling(category) ==
  CASE category = "audio" -> <<"a", "u", "d", "i", "o">>
    [] category = "video" -> <<"v", "i", "d", "e", "o">>
    [] OTHER -> <<>>

\* The category field of a Comment as a string value or null.
CategoryText(category) ==
  IF category = Null THEN NullText ELSE Text(Spelling(category))

\* normalizeCategory(c.category) of the comment of each message.
CommentCategory ==
  [m \in Msgs |-> normalizeCategory(CategoryText(MsgCategory(m)))]

\* The keys of acc in insertion order: the truthy normalized categories of
\* the list, each at its first occurrence.
Groups(list) ==
  LET cats == [i \in 1..Len(list) |-> CommentCategory[list[i]]]
      firsts == {i \in 1..Len(list) : Truthy(cats[i]) /\ \A j \in 1..(i - 1) : cats[j] # cats[i]}
  IN [k \in 1..Cardinality(firsts) |-> cats[Ascending(firsts)[k]]]

\* acc[cat] after the forEach over the list.
GroupCount(list, cat) ==
  Cardinality({i \in 1..Len(list) : CommentCategory[list[i]] = cat})

\* The entries of acc with a positive count, sorted by count descending.
Breakdown(list) ==
  StableSort(Filter([k \in 1..Len(Groups(list)) |->
                       [category |-> Groups(list)[k], count |-> GroupCount(list, Groups(list)[k])]],
                    LAMBDA e : e.count > 0),
             LAMBDA a, b : Sign(b.count - a.count))

\* visibleTech of the detail view: the snapshot, oldest first, without the
\* dismissed.
visibleTech(v) ==
  Filter(allTechComments[v], LAMBDA m : m \notin dismissed[v])

\* A breakdown that counts every message of the snapshot.
categoryBreakdownOfSnapshot(v) ==
  Breakdown(allTechComments[v])

\* categoryBreakdown: of visibleComments on the card, of visibleTech on the
\* detail view.
categoryBreakdown(v) ==
  Breakdown(IF v = "card" THEN visibleComments(v) ELSE visibleTech(v))

\* The keys of the issue_counts map, in the order of Object.entries (taken
\* as the order in which the collector first used them).
IssueKeyList ==
  LET ks == [m \in Msgs |-> IssueKey(Comment(m))]
      firsts == {m \in Msgs : ks[m] # NoKey /\ \A j \in 1..(m - 1) : ks[j] # ks[m]}
  IN [k \in 1..Cardinality(firsts) |-> ks[Ascending(firsts)[k]]]

\* normalizeCategory(key.split(":")[0]) of the i-th entry.
KeyCategory ==
  [i \in 1..Len(IssueKeyList) |-> normalizeCategory(CategoryText(IssueKeyList[i][1]))]

\* acc[cat] over the first n entries of counts: the positive counts of the
\* keys whose category normalizes to cat.
RECURSIVE CountsOf(_, _, _)
CountsOf(counts, cat, n) ==
  IF n = 0 THEN 0
  ELSE CountsOf(counts, cat, n - 1) +
       (IF KeyCategory[n] = cat /\ counts[IssueKeyList[n]] > 0
        THEN counts[IssueKeyList[n]] ELSE 0)

\* categoryBreakdown of the card that reads live.issue_counts: the entries
\* with a category and a positive count summed by normalized category, then
\* sorted by count descending.
categoryBreakdownOfCounts(counts) ==
  LET n == Len(IssueKeyList)
      firsts == {i \in 1..n : /\ Truthy(KeyCategory[i])
                              /\ counts[IssueKeyList[i]] > 0
                              /\ \A j \in 1..(i - 1) :
                                   ~(KeyCategory[j] = KeyCategory[i] /\ counts[IssueKeyList[j]] > 0)}
  IN StableSort(Filter([k \in 1..Cardinality(firsts) |->
                          [category |-> KeyCategory[Ascending(firsts)[k]],
                           count |-> CountsOf(counts, KeyCategory[Ascending(firsts)[k]], n)]],
                       LAMBDA e : e.count > 0),
                LAMBDA a, b : Sign(b.count - a.count))

\* A count per minute over the whole snapshot, dismissed messages included.
techByMinuteOfSnapshot(list, mk) ==
  Cardinality({i \in 1..Len(allTechComments["card"]) :
                 minuteKeyFromTs(MsgTs(allTechComments["card"][i])) = mk})

\* techByMinute[mk] ?? 0: the number of comments of the list whose ts gives
\* the minute key mk.
techByMinute(list, mk) ==
  Cardinality({i \in 1..Len(list) : minuteKeyFromTs(MsgTs(list[i])) = mk})

\* chartData.map(p => ({...p, technical: techByMinute[p.minute] ?? 0}))
\* sorted by minute.
ChartDisplay(data, list) ==
  StableSort([i \in 1..Len(data) |->
                [data[i] EXCEPT !.technical = techByMinute(list, data[i].minute)]],
             LAMBDA a, b : localeCompare(a.minute, b.minute))

\* A chart series that keeps the technical value of chartData.
chartDataDisplayOfAggregate ==
  StableSort(chartData, LAMBDA a, b : localeCompare(a.minute, b.minute))

\* chartDataDisplay of the card: total of chartData, technical recomputed
\* from the visible comments, sorted by minute.
chartDataDisplay ==
  ChartDisplay(chartData, visibleComments("card"))

\* -------------------------------------------------------------- listeners

\* The stream identifiers a view can be given; the store of the model is the
\* one of TheVideo. The registry's collection has no stream identifier.
VideoIds == 1..NVideos
TheVideo == 1
NoVideo == 0

\* The onSnapshot calls of a view's subscription effect.
Kinds(v) ==
  CASE v = "card" -> {"minutes", "tech"}
    [] v = "detail" -> {"live", "feed", "chart", "tech"}
    [] OTHER -> {"lives"}

\* The listeners the effect of view v opens for stream id.
Subscriptions(v, id) == {[view |-> v, kind |-> k, video |-> id] : k \in Kinds(v)}

\* A cleanup that unsubscribes the minute-aggregate listener only.
CleanupFirstOnly(v, id) == {l \in Subscriptions(v, id) : l.kind = "minutes"}

\* The listeners the effect's cleanup function unsubscribes: all of those
\* the same run of the effect has opened.
Cleanup(v, id) == Subscriptions(v, id)

\* View v has an open listener of the kind on the stream of the model.
Listening(v, k) == [view |-> v, kind |-> k, video |-> TheVideo] \in listeners

\* ------------------------------------------------------------------ views

\* The component mounts: fresh state, the override set loaded from
\* localStorage, the subscriptions opened.
Mount(v) ==
  /\ ~mounted[v]
  /\ mounted' = [mounted EXCEPT ![v] = TRUE]
  /\ dismissed' = [dismissed EXCEPT ![v] = IF videoId[v] = TheVideo /\ storage.present
                                          THEN Parse(storage) ELSE {}]
  /\ allTechComments' = [allTechComments EXCEPT ![v] = <<>>]
  /\ IF v = "card"
     THEN techSnapshotReady' = FALSE /\ chartData' = <<>> /\ alertKey' = 0
     ELSE UNCHANGED <<techSnapshotReady, chartData, alertKey>>
  /\ listeners' = listeners \cup Subscriptions(v, videoId[v])
  /\ UNCHANGED <<regVars, rateVars, catVars, buildVars, windowVars, historyVars, videoId>>
  /\ UNCHANGED <<storeVars, storage, call, errLog, storageFaults>>

\* The component unmounts: its listeners are unsubscribed and its state is
\* discarded; dismiss calls already started run on.
Unmount(v) ==
  /\ mounted[v]
  /\ mounted' = [mounted EXCEPT ![v] = FALSE]
  /\ dismissed' = [dismissed EXCEPT ![v] = {}]
  /\ allTechComments' = [allTechComments EXCEPT ![v] = <<>>]
  /\ IF v = "card"
     THEN techSnapshotReady' = FALSE /\ chartData' = <<>> /\ alertKey' = 0
     ELSE UNCHANGED <<techSnapshotReady, chartData, alertKey>>
  /\ listeners' = listeners \ Cleanup(v, videoId[v])
  /\ UNCHANGED <<regVars, rateVars, catVars, buildVars, windowVars, historyVars, videoId>>
  /\ UNCHANGED <<storeVars, storage, call, errLog, storageFaults>>

\* The view is given another stream identifier: the cleanup of the
\* subscription effect runs, then the effect again; the override set is
\* replaced if localStorage has an item for the new stream; the rest of the
\* component's state stays.
ChangeStream(v, id) ==
  /\ mounted[v]
  /\ id # videoId[v]
  /\ videoId' = [videoId EXCEPT ![v] = id]
  /\ listeners' = (listeners \ Cleanup(v, videoId[v])) \cup Subscriptions(v, id)
  /\ dismissed' = IF id = TheVideo /\ storage.present
                  THEN [dismissed EXCEPT ![v] = Parse(storage)]
                  ELSE dismissed
  /\ techSnapshotReady' = IF v = "card" THEN FALSE ELSE techSnapshotReady
  /\ UNCHANGED <<regVars, rateVars, catVars, buildVars, windowVars, historyVars>>
  /\ UNCHANGED <<storeVars, storage, mounted, allTechComments, chartData, alertKey, call,
                 errLog, storageFaults>>

\* snap.docChanges() entries of type "added": the documents of the snapshot
\* that the previous snapshot of the listener did not hold.
Added(docs, previous) == Range(docs) \ Range(previous)

\* A trigger that does not wait for the listener's first snapshot.
hasNewTechAnySnapshot(ready, added) == added # {}

\* A trigger that takes any change entry of a later snapshot, whatever its
\* type.
hasNewTechAnyChange(ready, added) == ready

\* hasNewTech: the snapshot is not the listener's first and has an added entry.
hasNewTech(ready, added) == ready /\ added # {}

\* The card's technical-message listener delivers the current query result.
CardTechSnapshot ==
  /\ Listening("card", "tech")
  /\ ~techSnapshotReady \/ TechDocs # allTechComments["card"]
  /\ LET added == Added(TechDocs, allTechComments["card"])
     IN /\ allTechComments' = [allTechComments EXCEPT !["card"] = TechDocs]
        /\ alertKey' = IF hasNewTech(techSnapshotReady, added) THEN alertKey + 1 ELSE alertKey
        /\ techSnapshotReady' = TRUE
  /\ UNCHANGED <<regVars, rateVars, catVars, buildVars, windowVars, historyVars, listenVars>>
  /\ UNCHANGED <<storeVars, storage, mounted, dismissed, chartData, call, errLog, storageFaults>>

\* The detail view's technical-message listener delivers the current query
\* result, kept sorted oldest first.
DetailTechSnapshot ==
  /\ Listening("detail", "tech")
  /\ LET data == StableSort(TechDocs, LAMBDA a, b : localeCompare(MsgTs(a), MsgTs(b)))
     IN /\ data # allTechComments["detail"]
        /\ allTechComments' = [allTechComments EXCEPT !["detail"] = data]
  /\ UNCHANGED <<regVars, rateVars, catVars, buildVars, windowVars, historyVars, listenVars>>
  /\ UNCHANGED <<storeVars, storage, mounted, dismissed, techSnapshotReady, chartData,
                 alertKey, call, errLog, storageFaults>>

\* The card's minute-aggregate listener delivers the current buckets.
MinutesSnapshot ==
  /\ Listening("card", "minutes")
  /\ chartData # MinutePoints
  /\ chartData' = MinutePoints
  /\ UNCHANGED <<regVars, rateVars, catVars, buildVars, windowVars, historyVars, listenVars>>
  /\ UNCHANGED <<storeVars, storage, mounted, dismissed, allTechComments,
                 techSnapshotReady, alertKey, call, errLog, storageFaults>>

\* A listener of the card reports an error: onSnapshot ends the listener
\* with it, and the card's callback, where there is one, only logs.
ListenerError(k) ==
  /\ Listening("card", k)
  /\ listeners' = listeners \ {[view |-> "card", kind |-> k, video |-> TheVideo]}
  /\ UNCHANGED <<regVars, rateVars, catVars, buildVars, windowVars, historyVars, videoId>>
  /\ UNCHANGED streamVars

\* ---------------------------------------------------------------- dismiss

\* A dismiss that replaces the override set instead of extending it.
OverrideReplace(prev, id) == {id}

\* new Set([...prev, c.id]).
OverrideAdd(prev, id) == prev \cup {id}

\* An optimistic adjustment without the floor at 0.
OptimisticChartUnfloored(data, minuteKey) ==
  IF minuteKey = NoKey THEN data
  ELSE [i \in 1..Len(data) |->
          IF data[i].minute = minuteKey
          THEN [data[i] EXCEPT !.technical = @ - 1]
          ELSE data[i]]

\* The optimistic local adjustment of the card's chartData: one technical
\* less, floored at 0, at the minute of the dismissed message.
OptimisticChart(data, minuteKey) ==
  IF minuteKey = NoKey THEN data
  ELSE [i \in 1..Len(data) |->
          IF data[i].minute = minuteKey
          THEN [data[i] EXCEPT !.technical = Max(0, @ - 1)]
          ELSE data[i]]

\* A dismiss that decrements the stream counters before the message write.
FirstWriteCounters == "live"

\* The first canonical write of a dismiss call.
FirstWrite == "msg"

\* A dismiss that ends with the stream write, the minute bucket never
\* written.
NextWriteWithoutMinute(v, c, stage) ==
  CASE stage = "msg" -> "live"
    [] OTHER -> "idle"

\* The write that follows an acknowledged write of a dismiss call of view v
\* for comment c; "idle" when the call returns.
NextWrite(v, c, stage) ==
  CASE stage = "msg" -> "live"
    [] stage = "live" -> IF v = "card" /\ minuteKeyFromTs(c.ts) # NoKey THEN "minute" ELSE "idle"
    [] OTHER -> "idle"

\* A dismiss whose writes each have their own try/catch.
AfterRejectionContinue(v, c, stage) == NextWrite(v, c, stage)

\* Where a dismiss call goes when an awaited write rejects: to the catch
\* block, which logs and returns.
AfterRejection(v, c, stage) == "idle"

FaultsLeft == errLog + storageFaults < MaxFaults

\* dismissComment(c) up to its first await, on view v: the optimistic chart
\* adjustment (card), the override set and its localStorage copy, and the
\* message write issued. stored tells whether setItem returned or threw.
Dismiss(v, m, stored) ==
  /\ mounted[v]
  /\ m \in Range(visibleComments(v))
  /\ call[v][m] = "idle"
  /\ stored \/ FaultsLeft
  /\ LET next == OverrideAdd(dismissed[v], m)
     IN /\ dismissed' = [dismissed EXCEPT ![v] = next]
        /\ storage' = IF stored THEN Serialize(next) ELSE storage
  /\ storageFaults' = IF stored THEN storageFaults ELSE storageFaults + 1
  /\ chartData' = IF v = "card"
                  THEN OptimisticChart(chartData, minuteKeyFromTs(MsgTs(m)))
                  ELSE chartData
  /\ call' = [call EXCEPT ![v][m] = FirstWrite]
  /\ UNCHANGED <<regVars, rateVars, catVars, buildVars, windowVars, historyVars, listenVars>>
  /\ UNCHANGED <<storeVars, mounted, allTechComments, techSnapshotReady, alertKey, errLog>>

\* The message write is applied: is_technical = false.
MessageWrite(v, m) ==
  /\ call[v][m] = "msg"
  /\ msgTech' = [msgTech EXCEPT ![m] = "nontech"]
  /\ call' = [call EXCEPT ![v][m] = NextWrite(v, Comment(m), "msg")]
  /\ UNCHANGED <<regVars, rateVars, catVars, buildVars, windowVars, historyVars, listenVars>>
  /\ UNCHANGED <<live, minutes, storage, viewVars, errLog, storageFaults>>

\* The stream write is applied: technical_comments and, when the comment
\* has a category and an issue, its issue_counts entry, each incremented by
\* -1 in one update.
LiveWrite(v, m) ==
  /\ call[v][m] = "live"
  /\ LET k == IssueKey(Comment(m))
     IN live' = [live EXCEPT !.technical_comments = @ - 1,
                             !.issue_counts = IF k = NoKey THEN @
                                              ELSE [@ EXCEPT ![k] = @ - 1]]
  /\ call' = [call EXCEPT ![v][m] = NextWrite(v, Comment(m), "live")]
  /\ UNCHANGED <<regVars, rateVars, catVars, buildVars, windowVars, historyVars, listenVars>>
  /\ UNCHANGED <<msgTech, minutes, storage, viewVars, errLog, storageFaults>>

\* The minute-bucket write is applied: technical incremented by -1.
MinuteWrite(v, m) ==
  /\ call[v][m] = "minute"
  /\ minutes' = [minutes EXCEPT ![minuteKeyFromTs(MsgTs(m))].technical = @ - 1]
  /\ call' = [call EXCEPT ![v][m] = NextWrite(v, Comment(m), "minute")]
  /\ UNCHANGED <<regVars, rateVars, catVars, buildVars, windowVars, historyVars, listenVars>>
  /\ UNCHANGED <<msgTech, live, storage, viewVars, errLog, storageFaults>>

\* The awaited write of a dismiss call rejects: nothing is applied, the
\* error is logged.
WriteRejected(v, m) ==
  /\ call[v][m] # "idle"
  /\ FaultsLeft
  /\ errLog' = errLog + 1
  /\ call' = [call EXCEPT ![v][m] = AfterRejection(v, Comment(m), call[v][m])]
  /\ UNCHANGED <<regVars, rateVars, catVars, buildVars, windowVars, historyVars, listenVars>>
  /\ UNCHANGED <<storeVars, storage, viewVars, storageFaults>>

\* --------------------------------------------------------------- registry

Streams == 1..NStreams
LiveStreams == 1..NLive

\* 5 min without an update from the backend, in ms.
STALE_MS == 5 * 60 * 1000

\* The values Date.now() takes in a run, and the instant of the last_seen_at
\* strings the backend writes.
SeenAt == 60 * 1000
ClockValues == {0, SeenAt + STALE_MS - 1, SeenAt + STALE_MS, SeenAt + STALE_MS + 60000}

\* last_seen_at strings: "" (absent), an ISO date of instant t as <<1, t>>,
\* an unparseable string as <<0>>.
NoDate == <<>>
IsoDate(t) == <<1, t>>
BadDate == <<0>>

\* new Date(s).getTime(): the instant, or NaN for an invalid date.
getTime(s) == IF Len(s) = 2 THEN [nan |-> FALSE, ms |-> s[2]] ELSE [nan |-> TRUE, ms |-> 0]

\* The Live object the registry callback builds from a stream document:
\* a missing status reads "ended", a missing last_seen_at reads "".
ToLive(d) ==
  [video_id |-> d.id,
   status |-> IF d.status = Null THEN "ended" ELSE d.status,
   last_seen_at |-> d.last_seen_at,
   total_comments |-> d.total_comments]

\* Array.prototype.indexOf: the 0-based index of the first x, -1 when absent.
indexOf(seq, x) ==
  IF \E i \in 1..Len(seq) : seq[i] = x
  THEN (CHOOSE i \in 1..Len(seq) : seq[i] = x /\ \A j \in 1..(i - 1) : seq[j] # x) - 1
  ELSE -1

\* A registry order that puts newly observed streams first.
OrderPrepend(order, newIds) == newIds \o order

\* orderRef.current after a snapshot: new identifiers go to the end.
OrderAppend(order, newIds) == order \o newIds

\* A staleness test that still accepts a stream last seen exactly STALE_MS ago.
isRecentInclusive(t, seen) == ~seen.nan /\ t - seen.ms <= STALE_MS

\* Date.now() - new Date(l.last_seen_at).getTime() < STALE_MS; a comparison
\* with NaN is false.
isRecent(t, seen) == ~seen.nan /\ t - seen.ms < STALE_MS

\* The active list of a render at instant t.
ActiveList(list, hid, t) ==
  Filter(list, LAMBDA l :
    IF l.status # "active" THEN FALSE
    ELSE IF l.video_id \in hid THEN FALSE
    ELSE IF l.last_seen_at = NoDate THEN TRUE
    ELSE isRecent(t, getTime(l.last_seen_at)))

\* The identifiers of a list of Live objects, in list order.
Ids(list) == [i \in 1..Len(list) |-> list[i].video_id]

\* A registry listener that takes its order from each snapshot alone.
RegistrySnapshotReordering(docs) ==
  /\ subscribed
  /\ connected' = TRUE
  /\ orderRef' = Ids([i \in 1..Len(docs) |-> ToLive(docs[i])])
  /\ lives' = StableSort([i \in 1..Len(docs) |-> ToLive(docs[i])], LAMBDA a, b :
                Sign(indexOf(orderRef', a.video_id) - indexOf(orderRef', b.video_id)))
  /\ active' = ActiveList(lives', hidden, now)
  /\ renderedAt' = now
  /\ UNCHANGED <<subscribed, hidden, hiddenItem, now>>
  /\ UNCHANGED <<streamVars, rateVars, catVars, buildVars, windowVars, historyVars, listenVars>>

\* The registry listener delivers a snapshot of the stream collection.
RegistrySnapshot(docs) ==
  /\ subscribed
  /\ connected' = TRUE
  /\ orderRef' = LET data == [i \in 1..Len(docs) |-> ToLive(docs[i])]
                     newIds == Filter(Ids(data), LAMBDA id : indexOf(orderRef, id) = -1)
                 IN OrderAppend(orderRef, newIds)
  /\ lives' = StableSort([i \in 1..Len(docs) |-> ToLive(docs[i])], LAMBDA a, b :
                Sign(indexOf(orderRef', a.video_id) - indexOf(orderRef', b.video_id)))
  /\ active' = ActiveList(lives', hidden, now)
  /\ renderedAt' = now
  /\ UNCHANGED <<subscribed, hidden, hiddenItem, now>>
  /\ UNCHANGED <<streamVars, rateVars, catVars, buildVars, windowVars, historyVars, listenVars>>

\* A registry listener without an error callback: the listener ends and the
\* page is told nothing.
RegistryErrorUnhandled ==
  /\ subscribed
  /\ subscribed' = FALSE
  /\ UNCHANGED <<connected, active, renderedAt>>
  /\ UNCHANGED <<orderRef, lives, hidden, hiddenItem, now>>
  /\ UNCHANGED <<streamVars, rateVars, catVars, buildVars, windowVars, historyVars, listenVars>>

\* The registry listener reports an error, its last event.
RegistryError ==
  /\ subscribed
  /\ subscribed' = FALSE
  /\ connected' = FALSE
  /\ IF connected
     THEN active' = ActiveList(lives, hidden, now) /\ renderedAt' = now
     ELSE UNCHANGED <<active, renderedAt>>
  /\ UNCHANGED <<orderRef, lives, hidden, hiddenItem, now>>
  /\ UNCHANGED <<streamVars, rateVars, catVars, buildVars, windowVars, historyVars, listenVars>>

\* The registry page unmounts: its listener is unsubscribed and its state
\* is discarded.
RegistryUnmount ==
  /\ Subscriptions("registry", NoVideo) \subseteq listeners
  /\ listeners' = listeners \ Cleanup("registry", NoVideo)
  /\ subscribed' = (subscribed /\ Subscriptions("registry", NoVideo) \subseteq listeners')
  /\ orderRef' = <<>> /\ lives' = <<>> /\ connected' = FALSE /\ hidden' = {}
  /\ active' = <<>>
  /\ UNCHANGED <<hiddenItem, now, renderedAt, videoId>>
  /\ UNCHANGED <<streamVars, rateVars, catVars, buildVars, windowVars, historyVars>>

\* The registry page mounts: fresh state, the hidden set loaded from
\* localStorage, the listener opened.
RegistryMount ==
  /\ Subscriptions("registry", NoVideo) \cap listeners = {}
  /\ listeners' = listeners \cup Subscriptions("registry", NoVideo)
  /\ subscribed' = TRUE
  /\ hidden' = IF hiddenItem.present THEN Parse(hiddenItem) ELSE {}
  /\ renderedAt' = now
  /\ UNCHANGED <<orderRef, lives, connected, hiddenItem, now, active, videoId>>
  /\ UNCHANGED <<streamVars, rateVars, catVars, buildVars, windowVars, historyVars>>

\* hideCard(videoId), from the card of an active stream.
HideCard(id) ==
  /\ \E i \in 1..Len(active) : active[i].video_id = id
  /\ LET next == hidden \cup {id}
     IN /\ hidden' = next
        /\ hiddenItem' = Serialize(next)
        /\ active' = ActiveList(lives, next, now)
  /\ renderedAt' = now
  /\ UNCHANGED <<orderRef, lives, connected, subscribed, now>>
  /\ UNCHANGED <<streamVars, rateVars, catVars, buildVars, windowVars, historyVars, listenVars>>

\* Time passes; nothing is rendered.
Tick ==
  /\ \E t \in ClockValues : t > now /\ now' = t
  /\ UNCHANGED <<orderRef, lives, connected, subscribed, hidden, hiddenItem, renderedAt, active>>
  /\ UNCHANGED <<streamVars, rateVars, catVars, buildVars, windowVars, historyVars, listenVars>>

\* The orders in which a snapshot may list the documents of S.
RECURSIVE Perms(_)
Perms(S) ==
  IF S = {} THEN {<<>>}
  ELSE UNION {{<<x>> \o q : q \in Perms(S \ {x})} : x \in S}

\* The snapshots of the ordering runs: any set of streams in any order, each
\* active; stream 1 is the one whose total_comments the backend updates.
OrderSnapshots ==
  UNION {{[i \in 1..Len(q) |->
             [id |-> q[i], status |-> "active", last_seen_at |-> NoDate,
              total_comments |-> IF q[i] = 1 THEN n ELSE 0]]
          : q \in UNION {Perms(S) : S \in SUBSET Streams}}
         : n \in 0..1}

\* The status and last_seen_at fields of the stream documents of the
\* liveness runs.
LiveFields ==
  {[status |-> "active", last_seen_at |-> NoDate],
   [status |-> "active", last_seen_at |-> IsoDate(SeenAt)],
   [status |-> "ended", last_seen_at |-> IsoDate(SeenAt)],
   [status |-> "active", last_seen_at |-> BadDate],
   [status |-> Null, last_seen_at |-> NoDate]}

\* The snapshots of the liveness runs, in document-identifier order.
LiveSnapshots ==
  UNION {{[i \in 1..Cardinality(S) |->
             [id |-> Ascending(S)[i], status |-> f[Ascending(S)[i]].status,
              last_seen_at |-> f[Ascending(S)[i]].last_seen_at, total_comments |-> 0]]
          : f \in [S -> LiveFields]}
         : S \in SUBSET LiveStreams}

\* ------------------------------------------------------------ history page

\* null as the value of ended_at.
NullDate == <<-1>>

\* The Live object the history page builds from a stream document: a
\* missing status reads "ended", a missing started_at "", a missing
\* ended_at null.
ToHistoryLive(d) ==
  [video_id |-> d.id,
   status |-> IF d.status = Null THEN "ended" ELSE d.status,
   started_at |-> d.started_at,
   ended_at |-> d.ended_at,
   last_seen_at |-> d.last_seen_at,
   total_comments |-> d.total_comments]

\* A history filter that goes by the status alone.
isEndedByStatus(l) == l.status = "ended"

\* l.status === "ended" || !!l.ended_at: null and "" are falsy.
isEnded(l) == l.status = "ended" \/ (l.ended_at # NullDate /\ l.ended_at # NoDate)

\* a.ended_at ?? a.started_at ?? "": only null gives way to started_at.
endTime(l) == IF l.ended_at # NullDate THEN l.ended_at ELSE l.started_at

\* The list the history page keeps for a snapshot of the stream collection.
EndedList(docs) ==
  StableSort(Filter([i \in 1..Len(docs) |-> ToHistoryLive(docs[i])], isEnded),
             LAMBDA a, b : localeCompare(endTime(b), endTime(a)))

\* The history page's listener delivers a snapshot of the stream collection.
HistorySnapshot ==
  /\ historyLives # EndedList(livesDocs)
  /\ historyLives' = EndedList(livesDocs)
  /\ UNCHANGED livesDocs
  /\ UNCHANGED <<streamVars, regVars, rateVars, catVars, listenVars, buildVars, windowVars>>

\* The instant at which the backend closes a stream.
ClosedAt == 4 * SeenAt

\* The backend closes an active stream: status ended, ended_at set.
CloseStream(id) ==
  /\ \E i \in 1..Len(livesDocs) :
       /\ livesDocs[i].id = id
       /\ livesDocs[i].status = "active"
       /\ livesDocs[i].ended_at = NullDate
       /\ livesDocs' = [livesDocs EXCEPT ![i] =
                          [@ EXCEPT !.status = "ended", !.ended_at = IsoDate(ClosedAt)]]
  /\ UNCHANGED historyLives
  /\ UNCHANGED <<streamVars, regVars, rateVars, catVars, listenVars, buildVars, windowVars>>

HistoryStreams == 1..NHistory

\* The status, started_at and ended_at fields of the stream documents of
\* the history runs: a running stream, a closed one, one ended without
\* ended_at, an old document with ended_at and status active, a document
\* without status, and one whose ended_at is the empty string.
HistoryFields ==
  {[status |-> "active", started_at |-> IsoDate(0), ended_at |-> NullDate],
   [status |-> "ended", started_at |-> IsoDate(0), ended_at |-> IsoDate(SeenAt)],
   [status |-> "ended", started_at |-> IsoDate(2 * SeenAt), ended_at |-> NullDate],
   [status |-> "active", started_at |-> IsoDate(0), ended_at |-> IsoDate(3 * SeenAt)],
   [status |-> Null, started_at |-> NoDate, ended_at |-> NullDate],
   [status |-> "ended", started_at |-> IsoDate(SeenAt), ended_at |-> NoDate]}

\* The stream collections of the history runs, in document-identifier order.
HistorySnapshots ==
  UNION {{[i \in 1..Cardinality(S) |->
             [id |-> Ascending(S)[i], status |-> f[Ascending(S)[i]].status,
              started_at |-> f[Ascending(S)[i]].started_at,
              ended_at |-> f[Ascending(S)[i]].ended_at,
              last_seen_at |-> NoDate, total_comments |-> 0]]
          : f \in [S -> HistoryFields]}
         : S \in SUBSET HistoryStreams}

\* ------------------------------------------------------------------- rate

\* JavaScript numbers are IEEE 754 doubles: a positive one is
\* 0.b1 b2 ... b53 (binary, b1 = 1) times 2^exp, kept as its 53 bits, most
\* significant first, and its exponent; zero has no bits.
Precision == 53

Zero == [bits |-> <<>>, exp |-> 0]

RECURSIVE Pow2(_)
Pow2(k) == IF k = 0 THEN 1 ELSE 2 * Pow2(k - 1)

\* The arithmetic works on the 53 bits in groups of 9, each group a digit
\* below 512.
Digit == Pow2(9)

\* The value of a bit string read as a binary integer.
RECURSIVE BitsValue(_)
BitsValue(b) ==
  IF b = <<>> THEN 0 ELSE 2 * BitsValue(SubSeq(b, 1, Len(b) - 1)) + b[Len(b)]

\* The bits of a string of digits, 9 for each digit.
DigitsToBits(digits) ==
  [j \in 1..(9 * Len(digits)) |->
     (digits[((j - 1) \div 9) + 1] \div Pow2(8 - ((j - 1) % 9))) % 2]

\* The digits of a bit string, zeros put in front to fill the first digit.
BitsToDigits(b) ==
  LET pad == (9 - (Len(b) % 9)) % 9
      whole == [j \in 1..(pad + Len(b)) |-> IF j <= pad THEN 0 ELSE b[j - pad]]
  IN [i \in 1..(Len(whole) \div 9) |-> BitsValue(SubSeq(whole, 9 * (i - 1) + 1, 9 * i))]

\* A bit string without its leading zeros.
Normalized(b) ==
  IF \A i \in 1..Len(b) : b[i] = 0 THEN <<>>
  ELSE SubSeq(b, CHOOSE i \in 1..Len(b) : b[i] = 1 /\ \A j \in 1..(i - 1) : b[j] = 0, Len(b))

\* b + 1 on a bit string of fixed length, the carry out of the top bit dropped.
Increment(b) ==
  [i \in 1..Len(b) |-> IF \A j \in (i + 1)..Len(b) : b[j] = 1 THEN 1 - b[i] ELSE b[i]]

\* Round to nearest, ties to even: the double nearest to 0.b x 2^exp, where b
\* has at least Precision bits and sticky tells whether nonzero digits follow b.
RoundToDouble(b, exp, sticky) ==
  LET kept == SubSeq(b, 1, Precision)
      rest == SubSeq(b, Precision + 1, Len(b))
      half == rest # <<>> /\ rest[1] = 1
      more == sticky \/ \E i \in 2..Len(rest) : rest[i] = 1
  IN IF half /\ (more \/ kept[Precision] = 1)
     THEN IF \A i \in 1..Precision : kept[i] = 1
          THEN [bits |-> <<1>> \o SubSeq(Increment(kept), 1, Precision - 1), exp |-> exp + 1]
          ELSE [bits |-> Increment(kept), exp |-> exp]
     ELSE [bits |-> kept, exp |-> exp]

\* The first k digits of r / den after the point (r < den).
RECURSIVE LongDivision(_, _, _)
LongDivision(r, den, k) ==
  IF k = 0 THEN <<>>
  ELSE <<(Digit * r) \div den>> \o LongDivision((Digit * r) % den, den, k - 1)

\* The remainder the first k digits of r / den leave.
RECURSIVE Remainder(_, _, _)
Remainder(r, den, k) ==
  IF k = 0 THEN r ELSE Remainder((Digit * r) % den, den, k - 1)

\* The exponent of n / d: the e with 2^(e-1) <= n / d < 2^e.
RECURSIVE Exponent(_, _)
Exponent(n, d) ==
  IF n >= d THEN 1 + Exponent(n, 2 * d)
  ELSE IF 2 * n < d THEN Exponent(2 * n, d) - 1
  ELSE 0

\* The double n / d of two positive integers: 54 bits of the quotient, that
\* is 6 digits, rounded to 53.
Divide(n, d) ==
  LET e == Exponent(n, d)
      num == IF e < 0 THEN n * Pow2(-e) ELSE n
      den == IF e > 0 THEN d * Pow2(e) ELSE d
  IN RoundToDouble(DigitsToBits(LongDivision(num, den, 6)), e,
                   Remainder(num, den, 6) # 0)

\* The digits of digits x k plus carry for a small integer k, from the last
\* digit up; the first digit of the result is the carry out of the top one.
RECURSIVE TimesDigits(_, _, _)
TimesDigits(digits, k, carry) ==
  IF digits = <<>> THEN <<carry>>
  ELSE Append(TimesDigits(SubSeq(digits, 1, Len(digits) - 1), k,
                          (digits[Len(digits)] * k + carry) \div Digit),
              (digits[Len(digits)] * k + carry) % Digit)

\* The bits of b x k for a small integer k.
TimesBits(b, k) == Normalized(DigitsToBits(TimesDigits(BitsToDigits(b), k, 0)))

\* The double x * k for a small positive integer k.
Times(x, k) ==
  IF x.bits = <<>> THEN Zero
  ELSE RoundToDouble(TimesBits(x.bits, k),
                     x.exp + Len(TimesBits(x.bits, k)) - Precision, FALSE)

\* Math.round: the nearest integer, a tie going up.
MathRound(x) ==
  IF x.bits = <<>> \/ x.exp < 0 THEN 0
  ELSE BitsValue(SubSeq(x.bits, 1, x.exp))
       + (IF x.exp < Precision THEN x.bits[x.exp + 1] ELSE 0)

\* The rate computed on the integers: the nearest integer to 100 n / max(d, 1),
\* a tie going up.
techRateExact(visible, total) ==
  (200 * visible + Max(total, 1)) \div (2 * Max(total, 1))

\* Math.round((totalTechCount / Math.max(live.total_comments, 1)) * 100)
techRate(visible, total) ==
  IF visible = 0 THEN 0
  ELSE MathRound(Times(Divide(visible, Max(total, 1)), 100))

\* The registry delivers the stream's document with one more comment counted;
\* the card renders.
RateTotal ==
  /\ total_comments < MaxTotal
  /\ total_comments' = total_comments + 1
  /\ techRateShown' = techRate(totalTechCount, total_comments')
  /\ UNCHANGED totalTechCount
  /\ UNCHANGED <<streamVars, regVars, catVars, buildVars, windowVars, historyVars, listenVars>>

\* A dismissal takes one message out of the visible list; the card renders.
RateDismiss ==
  /\ totalTechCount > 0
  /\ totalTechCount' = totalTechCount - 1
  /\ techRateShown' = techRate(totalTechCount', total_comments)
  /\ UNCHANGED total_comments
  /\ UNCHANGED <<streamVars, regVars, catVars, buildVars, windowVars, historyVars, listenVars>>

\* ------------------------------------------------------ raw-message chart

\* The comments a raw-message chart can be given: documents of the stream
\* in document order, each technical or not.
ChartMsgs == 1..NChartMsgs

ChartComment(m, tech) == [id |-> m, ts |-> MsgTs(m), is_technical |-> tech]

ChartInputs ==
  UNION {{[i \in 1..Cardinality(S) |->
             ChartComment(Ascending(S)[i], Ascending(S)[i] \in T)]
          : T \in SUBSET S}
         : S \in SUBSET ChartMsgs}

\* new Date(ts) is a valid date.
ValidDate(ts) == Len(ts) = 3

\* No call of buildChartData has been made; a call that threw.
NotBuilt == [done |-> FALSE, threw |-> FALSE, points |-> <<>>]
Thrown == [done |-> TRUE, threw |-> TRUE, points |-> <<>>]

\* buildChartData(comments, dismissed) of the detail view: every comment is
\* formatted to its minute with format(new Date(c.ts), "HH:mm"), which
\* throws a RangeError for an invalid date; total counts the comments of
\* the minute, technical those with is_technical that are not dismissed;
\* the buckets are sorted by minute.
buildChartData(comments, overrides) ==
  IF \E i \in 1..Len(comments) : ~ValidDate(comments[i].ts)
  THEN Thrown
  ELSE LET keys == KeysAscending({minuteKeyFromTs(comments[i].ts) : i \in 1..Len(comments)})
       IN [done |-> TRUE, threw |-> FALSE,
           points |->
             [k \in 1..Len(keys) |->
                [minute |-> keys[k],
                 total |-> Cardinality({i \in 1..Len(comments) :
                                          minuteKeyFromTs(comments[i].ts) = keys[k]}),
                 technical |-> Cardinality({i \in 1..Len(comments) :
                                              /\ minuteKeyFromTs(comments[i].ts) = keys[k]
                                              /\ comments[i].is_technical
                                              /\ comments[i].id \notin overrides})]]]

\* buildChartData(comments) of the history card: the same without an
\* override set.
historyChartData(comments) == buildChartData(comments, {})

\* The history card renders: chartData = buildChartData(techComments), the
\* comments being those of the technical query.
BuildHistoryChart ==
  /\ ~builtChart.done
  /\ \A i \in 1..Len(chartComments) : chartComments[i].is_technical
  /\ builtChart' = historyChartData(chartComments)
  /\ UNCHANGED <<chartComments, windowVars, historyVars, streamVars, regVars, rateVars, catVars, listenVars>>

\* The detail view renders: chartData = buildChartData(chartComments,
\* dismissed).
BuildDetailChart(overrides) ==
  /\ ~builtChart.done
  /\ builtChart' = buildChartData(chartComments, overrides)
  /\ UNCHANGED <<chartComments, windowVars, historyVars, streamVars, regVars, rateVars, catVars, listenVars>>

\* ------------------------------------------- the card with the limited query

\* The stream card of dashboard/components/LiveCard.tsx on a long stream:
\* its technical query is ordered by ts descending and limited, and its
\* alert compares the length of the visible list with prevTechCountRef.
\* The messages of the long stream are numbered in ts order.
TechLimit == 50
ShownCount == 5

LongMsgs == 1..(TechLimit + NExtra)

\* The stream document of the long stream when the messages 1..n have been
\* stored and S are those with is_technical.
LongCounts(n, S) ==
  [total_comments |-> n,
   technical_comments |-> Cardinality(S),
   issue_counts |-> [k \in IssueKeys |->
                       Cardinality({m \in S : IssueKey(Comment(m)) = k})]]

\* The documents of the query where is_technical, orderBy ts desc, limit 50.
Window(S) ==
  IF Cardinality(S) <= TechLimit THEN S
  ELSE {x \in S : Cardinality({y \in S : y > x}) < TechLimit}

\* visibleComments and its first five, the comments shown with a dismiss
\* button.
windowVisible == windowTechComments \ windowDismissed

RECURSIVE Newest(_, _)
Newest(S, n) ==
  IF n = 0 \/ S = {} THEN {}
  ELSE LET newest == CHOOSE x \in S : \A y \in S : y <= x
       IN {newest} \cup Newest(S \ {newest}, n - 1)

lastFiveComments == Newest(windowVisible, ShownCount)

\* The alert effect's condition.
AlertFires(prev, currentCount) == prev > 0 /\ currentCount > prev

\* The effect that runs when visibleComments.length has changed.
AlertEffect(currentCount) ==
  /\ windowAlertKey' = IF AlertFires(prevTechCountRef, currentCount)
                       THEN windowAlertKey + 1 ELSE windowAlertKey
  /\ prevTechCountRef' = currentCount

\* The collector stores the next technical message of the long stream.
LongArrive ==
  /\ lastId < TechLimit + NExtra
  /\ lastId' = lastId + 1
  /\ longTech' = longTech \cup {lastId + 1}
  /\ longLive' = LET k == IssueKey(Comment(lastId + 1))
                 IN [total_comments |-> longLive.total_comments + 1,
                     technical_comments |-> longLive.technical_comments + 1,
                     issue_counts |-> IF k = NoKey THEN longLive.issue_counts
                                      ELSE [longLive.issue_counts EXCEPT ![k] = @ + 1]]
  /\ UNCHANGED <<windowStorage, windowTechComments, windowDismissed, prevTechCountRef,
                 windowAlertKey, windowCall>>
  /\ UNCHANGED <<streamVars, regVars, rateVars, catVars, listenVars, buildVars, historyVars>>

\* The technical listener delivers the current result of the limited query;
\* the card renders and the alert effect runs.
WindowSnapshot ==
  /\ Window(longTech) # windowTechComments
  /\ windowTechComments' = Window(longTech)
  /\ AlertEffect(Cardinality(Window(longTech) \ windowDismissed))
  /\ UNCHANGED <<longTech, longLive, lastId, windowStorage, windowDismissed, windowCall>>
  /\ UNCHANGED <<streamVars, regVars, rateVars, catVars, listenVars, buildVars, historyVars>>

\* dismissComment(c) up to its first await: the override set and its
\* localStorage copy, the render with its alert effect, the message write
\* issued.
WindowDismiss(m) ==
  /\ Cardinality(windowDismissed) < MaxWindowDismissals
  /\ m \in lastFiveComments
  /\ windowDismissed' = OverrideAdd(windowDismissed, m)
  /\ windowStorage' = Serialize(windowDismissed')
  /\ AlertEffect(Cardinality(windowTechComments \ windowDismissed'))
  /\ windowCall' = windowCall \cup {<<m, FirstWrite>>}
  /\ UNCHANGED <<longTech, longLive, lastId, windowTechComments>>
  /\ UNCHANGED <<streamVars, regVars, rateVars, catVars, listenVars, buildVars, historyVars>>

\* The message write is applied: is_technical = false.
WindowMessageWrite(m) ==
  /\ <<m, "msg">> \in windowCall
  /\ longTech' = longTech \ {m}
  /\ windowCall' = (windowCall \ {<<m, "msg">>}) \cup {<<m, "live">>}
  /\ UNCHANGED <<longLive, lastId, windowStorage, windowTechComments, windowDismissed,
                 prevTechCountRef, windowAlertKey>>
  /\ UNCHANGED <<streamVars, regVars, rateVars, catVars, listenVars, buildVars, historyVars>>

\* The stream write is applied and the call returns.
WindowLiveWrite(m) ==
  /\ <<m, "live">> \in windowCall
  /\ longLive' = LET k == IssueKey(Comment(m))
                 IN [longLive EXCEPT !.technical_comments = @ - 1,
                                     !.issue_counts = IF k = NoKey THEN @
                                                      ELSE [@ EXCEPT ![k] = @ - 1]]
  /\ windowCall' = windowCall \ {<<m, "live">>}
  /\ UNCHANGED <<longTech, lastId, windowStorage, windowTechComments, windowDismissed,
                 prevTechCountRef, windowAlertKey>>
  /\ UNCHANGED <<streamVars, regVars, rateVars, catVars, listenVars, buildVars, historyVars>>

\* ------------------------------------------------------------- classifier

\* No call of normalizeCategory has returned.
Pending == [done |-> FALSE, value |-> NullText]

\* normalizeCategory(raw) returns.
Classify ==
  /\ ~normalized.done
  /\ normalized' = [done |-> TRUE, value |-> normalizeCategory(raw)]
  /\ UNCHANGED <<raw, buildVars, windowVars, historyVars, streamVars, regVars, rateVars, listenVars>>

\* ------------------------------------------------------- specification

\* The classifier and the listeners before a run: no call made, the registry
\* page listening, both views given the stream of the model.
CatIdle == raw = NullText /\ normalized = Pending

BuildIdle == chartComments = <<>> /\ builtChart = NotBuilt

\* The card with the limited query before its first snapshot, on a stream
\* without messages.
WindowIdle ==
  /\ longTech = {} /\ longLive = LongCounts(0, {}) /\ lastId = 0
  /\ windowStorage = NoItem /\ windowTechComments = {} /\ windowDismissed = {}
  /\ prevTechCountRef = 0 /\ windowAlertKey = 0 /\ windowCall = {}

HistoryIdle == livesDocs = <<>> /\ historyLives = <<>>

ListenIdle ==
  /\ listeners = Subscriptions("registry", NoVideo)
  /\ videoId = [v \in Views |-> TheVideo]


\* The registry page and the rate inputs, not part of the stream's runs.
RegIdle ==
  /\ orderRef = <<>> /\ lives = <<>> /\ connected = FALSE /\ subscribed = TRUE
  /\ hidden = {}
  /\ hiddenItem = NoItem /\ now = 0 /\ renderedAt = 0 /\ active = <<>>

RateIdle == total_comments = 0 /\ totalTechCount = 0 /\ techRateShown = 0

\* The stream card of one stream, with rejected writes and a throwing
\* setItem.
Init == StreamInit /\ RegIdle /\ RateIdle /\ CatIdle /\ ListenIdle /\ BuildIdle /\ WindowIdle /\ HistoryIdle

Next ==
  \/ \E m \in Msgs : Arrive(m)
  \/ Mount("card")
  \/ Unmount("card")
  \/ CardTechSnapshot
  \/ MinutesSnapshot
  \/ \E m \in Msgs, stored \in BOOLEAN : Dismiss("card", m, stored)
  \/ \E m \in Msgs : MessageWrite("card", m)
  \/ \E m \in Msgs : LiveWrite("card", m)
  \/ \E m \in Msgs : MinuteWrite("card", m)
  \/ \E m \in Msgs : WriteRejected("card", m)

Spec == Init /\ [][Next]_vars

\* The stream card and the detail view of the same stream in the same
\* browser, every write acknowledged.
NextViews ==
  \/ \E m \in Msgs : Arrive(m)
  \/ \E v \in Views : Mount(v)
  \/ \E v \in Views : Unmount(v)
  \/ CardTechSnapshot
  \/ DetailTechSnapshot
  \/ MinutesSnapshot
  \/ \E v \in Views, m \in Msgs : Dismiss(v, m, TRUE)
  \/ \E v \in Views, m \in Msgs : MessageWrite(v, m)
  \/ \E v \in Views, m \in Msgs : LiveWrite(v, m)
  \/ \E v \in Views, m \in Msgs : MinuteWrite(v, m)

SpecViews == Init /\ [][NextViews]_vars

\* The stream card from its mount on, with messages of both kinds, so that
\* the chart has a bucket of its own for the messages that are not
\* technical, and with rejected writes.
NextChart ==
  \/ \E m \in Msgs : Arrive(m)
  \/ ArriveOther
  \/ Mount("card")
  \/ CardTechSnapshot
  \/ MinutesSnapshot
  \/ \E m \in Msgs : Dismiss("card", m, TRUE)
  \/ \E m \in Msgs : MessageWrite("card", m)
  \/ \E m \in Msgs : LiveWrite("card", m)
  \/ \E m \in Msgs : MinuteWrite("card", m)
  \/ \E m \in Msgs : WriteRejected("card", m)

SpecChart == Init /\ [][NextChart]_vars

\* The registry's ordering: snapshots that list the streams in any order.
NextOrder ==
  \/ \E docs \in OrderSnapshots : RegistrySnapshot(docs)
  \/ RegistryError

SpecOrder == Init /\ [][NextOrder]_vars

\* The registry's liveness: status, last_seen_at, hidden cards and the clock.
NextLiveness ==
  \/ \E docs \in LiveSnapshots : RegistrySnapshot(docs)
  \/ RegistryError
  \/ \E id \in LiveStreams : HideCard(id)
  \/ Tick

SpecLiveness == Init /\ [][NextLiveness]_vars

\* The rate of a card mounted with any total_comments and any number of
\* visible technical messages.
RateInit ==
  /\ total_comments \in 0..MaxTotal
  /\ totalTechCount \in 0..MaxVisible
  /\ techRateShown = techRate(totalTechCount, total_comments)
  /\ StreamInit /\ RegIdle /\ CatIdle /\ ListenIdle /\ BuildIdle /\ WindowIdle /\ HistoryIdle

NextRate == RateDismiss \/ RateTotal

SpecRate == RateInit /\ [][NextRate]_vars

\* normalizeCategory alone, on every input of CategoryInputs.
NormalizeInit ==
  /\ raw \in CategoryInputs
  /\ normalized = Pending
  /\ StreamInit /\ RegIdle /\ RateIdle /\ ListenIdle /\ BuildIdle /\ WindowIdle /\ HistoryIdle

NextNormalize == Classify

SpecNormalize == NormalizeInit /\ [][NextNormalize]_vars

\* The registry snapshots of the recovery runs: the streams listed are
\* active and have no last_seen_at.
RecoverySnapshots ==
  {docs \in LiveSnapshots :
     \A i \in 1..Len(docs) : docs[i].status = "active" /\ docs[i].last_seen_at = NoDate}

\* The card and the registry page with their faults (rejected writes,
\* listeners that report an error), every delivery and every acknowledged
\* write eventually happening while it is possible.
NextRecovery ==
  \/ \E m \in Msgs : Arrive(m)
  \/ Mount("card")
  \/ CardTechSnapshot
  \/ MinutesSnapshot
  \/ \E k \in Kinds("card") : ListenerError(k)
  \/ \E m \in Msgs : Dismiss("card", m, TRUE)
  \/ \E m \in Msgs : MessageWrite("card", m)
  \/ \E m \in Msgs : LiveWrite("card", m)
  \/ \E m \in Msgs : MinuteWrite("card", m)
  \/ \E m \in Msgs : WriteRejected("card", m)
  \/ \E docs \in RecoverySnapshots : RegistrySnapshot(docs)
  \/ RegistryError

FairRecovery ==
  /\ WF_vars(CardTechSnapshot)
  /\ WF_vars(MinutesSnapshot)
  /\ WF_vars(\E docs \in RecoverySnapshots : RegistrySnapshot(docs))
  /\ \A m \in Msgs : /\ WF_vars(MessageWrite("card", m))
                      /\ WF_vars(LiveWrite("card", m))
                      /\ WF_vars(MinuteWrite("card", m))

SpecRecovery == Init /\ [][NextRecovery]_vars /\ FairRecovery

\* The card with the limited query, mounted on a stream that holds a
\* number of technical messages around the limit.
WindowInit ==
  /\ lastId \in (TechLimit - NBelow)..(TechLimit + 1)
  /\ longTech = 1..lastId
  /\ longLive = LongCounts(lastId, 1..lastId)
  /\ windowStorage = NoItem /\ windowTechComments = {} /\ windowDismissed = {}
  /\ prevTechCountRef = 0 /\ windowAlertKey = 0 /\ windowCall = {}
  /\ StreamInit /\ RegIdle /\ RateIdle /\ CatIdle /\ ListenIdle /\ BuildIdle /\ HistoryIdle

NextWindow ==
  \/ LongArrive
  \/ WindowSnapshot
  \/ \E m \in LongMsgs : WindowDismiss(m)
  \/ \E m \in LongMsgs : WindowMessageWrite(m)
  \/ \E m \in LongMsgs : WindowLiveWrite(m)

SpecWindow == WindowInit /\ [][NextWindow]_vars

\* The home page and the history page on one stream collection, of which
\* the backend closes stream 1.
HistoryInit ==
  /\ livesDocs \in HistorySnapshots
  /\ historyLives = <<>>
  /\ StreamInit /\ RegIdle /\ RateIdle /\ CatIdle /\ ListenIdle /\ BuildIdle /\ WindowIdle

NextHistory ==
  \/ RegistrySnapshot(livesDocs)
  \/ HistorySnapshot
  \/ CloseStream(1)
  \/ \E id \in HistoryStreams : HideCard(id)

SpecHistory == HistoryInit /\ [][NextHistory]_vars

\* buildChartData alone, on every list of ChartInputs.
BuildInit ==
  /\ chartComments \in ChartInputs
  /\ builtChart = NotBuilt
  /\ StreamInit /\ RegIdle /\ RateIdle /\ CatIdle /\ ListenIdle /\ WindowIdle /\ HistoryIdle

NextBuild ==
  \/ BuildHistoryChart
  \/ \E overrides \in SUBSET ChartMsgs : BuildDetailChart(overrides)

SpecBuild == BuildInit /\ [][NextBuild]_vars

\* The views and the registry page as they mount, unmount and are given
\* another stream, with the deliveries of the listeners of the stream of the
\* model.
NextListeners ==
  \/ \E m \in Msgs : Arrive(m)
  \/ \E v \in Views : Mount(v)
  \/ \E v \in Views : Unmount(v)
  \/ \E v \in Views, id \in VideoIds : ChangeStream(v, id)
  \/ RegistryMount
  \/ RegistryUnmount
  \/ RegistryError
  \/ CardTechSnapshot
  \/ DetailTechSnapshot
  \/ MinutesSnapshot

SpecListeners == Init /\ [][NextListeners]_vars

\* ------------------------------------------------------------- properties

\* The number of messages the collector stored (P of them), and of those
\* whose is_technical a dismiss has set to false.
Stored(P(_)) == Cardinality({m \in Msgs : msgTech[m] # "none" /\ P(m)})
Reclassified(P(_)) == Cardinality({m \in Msgs : msgTech[m] = "nontech" /\ P(m)})

\* C1: whatever the number of dismiss calls for a message, from the card and
\* from the detail view, the stream's technical_comments, the message's
\* issue_counts entry and its minute bucket's technical counter are
\* decremented once per dismissed message and never more (each counter is
\* never below the number of stored messages it counts minus the number of
\* those a dismiss reclassified).
C1_DismissDecrementsOnce ==
  /\ live.technical_comments >= Stored(LAMBDA m : TRUE) - Reclassified(LAMBDA m : TRUE)
  /\ \A k \in IssueKeys :
       live.issue_counts[k] >= Stored(LAMBDA m : IssueKey(Comment(m)) = k)
                               - Reclassified(LAMBDA m : IssueKey(Comment(m)) = k)
  /\ \A mk \in MinuteKeys :
       minutes[mk].technical >= Stored(LAMBDA m : minuteKeyFromTs(MsgTs(m)) = mk)
                                - Reclassified(LAMBDA m : minuteKeyFromTs(MsgTs(m)) = mk)

\* C2: a message dismissed on a view (a member of its override set) is a
\* member of the set a view loads from localStorage after a restart,
\* whatever the card and the detail view dismissed in between.
C2_DismissedIsPersisted ==
  \A v \in Views : mounted[v] => dismissed[v] \subseteq Parse(storage)

\* C3: while a view stays mounted no step removes an identifier from its
\* override set: not a dismiss of another message, a snapshot, a throwing
\* setItem or a rejected canonical write.
C3_OverrideOnlyGrows ==
  [][\A v \in Views : mounted[v] /\ mounted'[v] => dismissed[v] \subseteq dismissed'[v]]_vars

\* C3 witness: a mounted card that dismissed both messages, the second after
\* a fault.
C3_Witness ==
  /\ mounted["card"]
  /\ dismissed["card"] = Msgs
  /\ errLog + storageFaults > 0

\* C4 as claimed: after the first snapshot the signal count grows by the
\* number of messages a notification adds (k messages make it k, in one
\* notification or in several), and the first snapshot leaves it at 0.
C4_OncePerMessage ==
  [][mounted["card"] /\ mounted'["card"] =>
       alertKey' = alertKey
                   + (IF techSnapshotReady
                      THEN Cardinality(Added(allTechComments'["card"], allTechComments["card"]))
                      ELSE 0)]_vars

\* C4 as amended: the first snapshot of the subscription leaves the signal
\* count unchanged whatever it holds, and each later notification with at
\* least one added message raises it by exactly 1, whatever the number of
\* messages it adds; no other step changes it.
C4_OncePerNotification ==
  [][mounted["card"] /\ mounted'["card"] =>
       alertKey' = alertKey
                   + (IF techSnapshotReady
                         /\ Added(allTechComments'["card"], allTechComments["card"]) # {}
                      THEN 1 ELSE 0)]_vars

\* C4 witness: two messages were added after the card's first snapshot and
\* the signal fired once for each of two notifications.
C4_Witness ==
  /\ mounted["card"] /\ techSnapshotReady
  /\ Len(allTechComments["card"]) = 2
  /\ alertKey = 2

\* C8: on every mounted view the visible technical list holds exactly the
\* messages of the last delivered technical snapshot that are not in the
\* override set, each once, newest first by ts; a dismissed message is not
\* in it, whether its canonical writes are pending, applied or rejected.
C8_VisibleIsSnapshotMinusOverrides ==
  \A v \in Views : mounted[v] =>
    LET vis == visibleComments(v)
    IN /\ Range(vis) = Range(allTechComments[v]) \ dismissed[v]
       /\ Cardinality(Range(vis)) = Len(vis)
       /\ \A i, j \in 1..Len(vis) :
            i < j => localeCompare(MsgTs(vis[i]), MsgTs(vis[j])) >= 0

\* C8 witness: the card shows one of two snapshot messages; the other was
\* dismissed, its message write was rejected, and it is still technical in
\* the store and in the snapshot.
C8_Witness ==
  /\ mounted["card"]
  /\ Len(allTechComments["card"]) = 2
  /\ Len(visibleComments("card")) = 1
  /\ errLog = 1
  /\ \E m \in dismissed["card"] : msgTech[m] = "tech" /\ call["card"][m] = "idle"

\* C9: a dismiss call starts by adding the message to the override set with
\* the store untouched and the message write pending; the stream write is
\* issued only by the step that applies the message write, the minute write
\* only by the step that applies the stream write, and each document is
\* written only by the call's write of that stage.
C9_LocalFirstThenWritesInOrder ==
  [][\A v \in Views, m \in Msgs :
       /\ (call[v][m] = "idle" /\ call'[v][m] # "idle") =>
            /\ call'[v][m] = "msg"
            /\ m \in dismissed'[v]
            /\ storeVars' = storeVars
       /\ (call[v][m] # "live" /\ call'[v][m] = "live") =>
            call[v][m] = "msg" /\ msgTech'[m] = "nontech" /\ live' = live /\ minutes' = minutes
       /\ (call[v][m] # "minute" /\ call'[v][m] = "minute") =>
            /\ call[v][m] = "live"
            /\ live'.technical_comments = live.technical_comments - 1
            /\ minutes' = minutes
       /\ (msgTech[m] = "tech" /\ msgTech'[m] = "nontech") =>
            \E w \in Views : call[w][m] = "msg" /\ call'[w][m] # "msg"
       /\ live'.technical_comments < live.technical_comments =>
            \E w \in Views, x \in Msgs : call[w][x] = "live" /\ call'[w][x] # "live"
       /\ (\E mk \in MinuteKeys : minutes'[mk].technical < minutes[mk].technical) =>
            \E w \in Views, x \in Msgs : call[w][x] = "minute" /\ call'[w][x] # "minute"]_vars

\* C9 witness: a dismiss call of the card about to write the minute bucket,
\* its message and stream writes applied.
C9_Witness ==
  \E m \in Msgs :
    /\ call["card"][m] = "minute"
    /\ m \in dismissed["card"]
    /\ msgTech[m] = "nontech"

\* C10 as claimed: the writes of a dismiss are independent, so a call whose
\* write was rejected goes on to its next write (after a rejected message
\* write the stream write, after a rejected stream write the minute write).
C10_WritesIndependent ==
  [][\A v \in Views, m \in Msgs :
       (errLog' = errLog + 1 /\ call'[v][m] # call[v][m]) =>
         call'[v][m] = NextWrite(v, Comment(m), call[v][m])]_vars

\* C10 as amended: the writes of a dismiss are sequential in one try block:
\* a rejected write is logged, applies nothing and ends the call, so no later
\* write of that call is issued (a rejected message write leaves the counters
\* undecremented, a rejected stream write leaves the minute bucket
\* undecremented); the writes applied before it stay applied.
C10_RejectionEndsTheCall ==
  [][\A v \in Views, m \in Msgs :
       (errLog' = errLog + 1 /\ call'[v][m] # call[v][m]) =>
         call'[v][m] = "idle" /\ storeVars' = storeVars]_vars

\* C10 witness: a dismiss whose message write was applied and whose stream
\* write was rejected: the message is non-technical, no counter was
\* decremented and no call is pending.
C10_Witness ==
  /\ errLog = 1
  /\ \A v \in Views, m \in Msgs : call[v][m] = "idle"
  /\ \E m \in Msgs : msgTech[m] = "nontech"
  /\ live.technical_comments = Stored(LAMBDA m : TRUE)
  /\ \E mk \in MinuteKeys : minutes[mk].technical > 0

IsPrefix(a, b) == Len(a) <= Len(b) /\ \A i \in 1..Len(a) : a[i] = b[i]

\* C6: a stream keeps the position of its first observation: every snapshot
\* leaves the recorded order as a prefix and appends the streams it shows
\* for the first time, the order holds every listed stream once, and the
\* displayed list puts any two streams in the order of their first
\* observation, whatever the order of the snapshot's documents and whatever
\* updates each received.
C6_StableOrder ==
  [][/\ IsPrefix(orderRef, orderRef')
     /\ Cardinality(Range(orderRef')) = Len(orderRef')
     /\ Range(Ids(lives')) \subseteq Range(orderRef')
     /\ Range(orderRef') = Range(orderRef) \cup Range(Ids(lives'))
     /\ \A i, j \in 1..Len(lives') :
          i < j => indexOf(orderRef', lives'[i].video_id) < indexOf(orderRef', lives'[j].video_id)]_vars

\* C6 witness: stream 2 was observed before stream 1, and the list shows
\* [2, 1] with stream 1 updated and stream 2 not.
C6_Witness ==
  /\ orderRef = <<2, 1>>
  /\ Ids(lives) = <<2, 1>>
  /\ lives[1].total_comments = 0
  /\ lives[2].total_comments = 1

C5_RateIsRoundedQuotient ==
  techRateShown = techRateExact(totalTechCount, total_comments)

\* ------------------------------------------------- a dismiss whose write fails

\* The messages of the snapshot of view v that are not overridden.
Shown(v) == Range(allTechComments[v]) \ dismissed[v]

\* Every group of a breakdown counts the messages of the list that
\* normalize to its category, at least one; no group has a null or empty
\* category; every category of the list has its group; the groups are in
\* descending order of count.
GroupsOf(breakdown, shown) ==
  /\ \A k \in 1..Len(breakdown) :
       /\ Truthy(breakdown[k].category)
       /\ breakdown[k].count > 0
       /\ breakdown[k].count =
            Cardinality({x \in shown :
                           CommentCategory[x] = breakdown[k].category})
       /\ \A j \in 1..(k - 1) : /\ breakdown[j].count >= breakdown[k].count
                                /\ breakdown[j].category # breakdown[k].category

\* Every point of a series has, as technical, the number of messages of the
\* set whose ts gives the point's minute.
TechnicalOf(display, shown) ==
  \A j \in 1..Len(display) :
    display[j].technical =
      Cardinality({x \in shown : minuteKeyFromTs(MsgTs(x)) = display[j].minute})

\* The list holds exactly the messages of the set, each once.
ListOf(list, shown) == Range(list) = shown /\ Len(list) = Cardinality(shown)

\* Message m is left out of everything the card derives: the visible list,
\* the technical count, the groups of the breakdown and the technical series
\* of the chart all count the messages of Shown only.
ExcludedFromCard(m) ==
  /\ m \notin Shown("card")
  /\ ListOf(visibleComments("card"), Shown("card"))
  /\ GroupsOf(categoryBreakdown("card"), Shown("card"))
  /\ TechnicalOf(chartDataDisplay, Shown("card"))

\* C11: when a canonical write of the card's dismiss of m is rejected, the
\* call ends there with the error logged; the store, the override set, the
\* localStorage item and the chart state are as they were; a mounted card
\* whose localStorage item holds m still has m in its override set; and
\* with m in the override set, which the step leaves as it was, m is left
\* out of the visible list, the technical count, the breakdown and the
\* chart's technical series, exactly as after a dismiss whose writes were
\* acknowledged.
C11_RejectedDismissKeepsExclusion ==
  [][errLog' = errLog + 1 =>
       \A m \in Msgs :
         call'["card"][m] # call["card"][m]
         => /\ call'["card"][m] = "idle"
            /\ UNCHANGED <<storeVars, storage, dismissed, allTechComments, chartData>>
            /\ (mounted["card"] /\ m \in Parse(storage)) => m \in dismissed'["card"]
            /\ m \in dismissed["card"] => ExcludedFromCard(m)]_vars

\* A rejected dismiss of a message that the store still classifies as
\* technical and the snapshot still holds, with a category and a minute of
\* the chart.
C11_Witness ==
  /\ errLog = 1
  /\ mounted["card"]
  /\ \E m \in dismissed["card"] :
       /\ call["card"][m] = "idle"
       /\ msgTech[m] = "tech"
       /\ m \in Range(allTechComments["card"])
       /\ MsgCategory(m) # Null
       /\ \E i \in 1..Len(chartData) : chartData[i].minute = minuteKeyFromTs(MsgTs(m))

\* ------------------------------------------------------ the card's chart

\* The series has one point for every point of data, with its minute and
\* its total.
SamePoints(display, data) ==
  /\ Len(display) = Len(data)
  /\ \A i \in 1..Len(data) :
       \E j \in 1..Len(display) :
         display[j].minute = data[i].minute /\ display[j].total = data[i].total

\* The points are in ascending order of the minute key.
AscendingMinutes(display) ==
  \A j \in 1..(Len(display) - 1) : localeCompare(display[j].minute, display[j + 1].minute) < 0

\* C12: the card's chart series has one point for every bucket of the
\* minute aggregate the card holds, with the bucket's total; its technical
\* value is the number of visible technical messages whose ts gives that
\* minute, whatever technical value the bucket holds; and the points are in
\* ascending order of the minute key.
C12_SeriesFromVisible ==
  /\ SamePoints(chartDataDisplay, chartData)
  /\ TechnicalOf(chartDataDisplay, Shown("card"))
  /\ AscendingMinutes(chartDataDisplay)

\* A chart of two buckets after a dismiss, where the bucket of the dismissed
\* message holds a technical value that is not the one shown.
C12_Witness ==
  /\ Len(chartData) = 2
  /\ \E m \in dismissed["card"], i \in 1..Len(chartData) :
       /\ m \in Range(allTechComments["card"])
       /\ chartData[i].minute = minuteKeyFromTs(MsgTs(m))
       /\ chartData[i].technical # chartDataDisplay[i].technical

\* C13: in every point of the card's chart series the technical value is at
\* most the total.
C13_TechnicalAtMostTotal ==
  \A j \in 1..Len(chartDataDisplay) :
    chartDataDisplay[j].technical <= chartDataDisplay[j].total

\* ------------------------------------------------- the category breakdown

\* The card and the store are settled: no dismiss call is running and the
\* card holds the current technical snapshot.
Settled ==
  /\ mounted["card"]
  /\ techSnapshotReady
  /\ allTechComments["card"] = TechDocs
  /\ \A m \in Msgs : call["card"][m] = "idle"

\* C14: on a settled card, the breakdown computed from the visible comments
\* and the breakdown computed from the stream document's issue_counts both
\* consist of groups that count visible technical messages only, so that a
\* dismissed message contributes to no group.
C14_GroupsCountVisible ==
  Settled => /\ GroupsOf(categoryBreakdown("card"), Shown("card"))
             /\ GroupsOf(categoryBreakdownOfCounts(live.issue_counts), Shown("card"))

\* The breakdown computed from the visible comments of a view is the
\* grouping of the claim: its groups count visible messages only and their
\* counts add up to the visible messages with a category.
BreakdownOfVisible ==
  \A v \in Views :
    /\ GroupsOf(categoryBreakdown(v), Shown(v))
    /\ \A x \in Shown(v) :
         Truthy(CommentCategory[x])
         => \E k \in 1..Len(categoryBreakdown(v)) :
              categoryBreakdown(v)[k].category = CommentCategory[x]

\* ---------------------------------------------------------- normalization

\* The string holds the term at position i, and somewhere.
HoldsAt(str, term, i) ==
  i >= 1 /\ i + Len(term) - 1 <= Len(str) /\ SubSeq(str, i, i + Len(term) - 1) = term
Holds(str, term) == \E i \in 1..Len(str) : HoldsAt(str, term, i)

\* The string has a word character at position i.
WordAt(str, i) == i >= 1 /\ i <= Len(str) /\ str[i] \in WordChars

\* The terms of the four labels.
AudioTerms == {<<"A", "U", "D", "I", "O">>, <<"Á", "U", "D", "I", "O">>, <<"N", "A", "R", "R">>}
VideoTerms == {<<"V", "I", "D", "E", "O">>, <<"V", "Í", "D", "E", "O">>, <<"T", "E", "L", "A">>, <<"P", "I", "X", "E", "L">>, <<"I", "M", "A", "G">>, <<"C", "O", "N", "G", "E", "L">>}
NetworkTerms == {<<"R", "E", "D", "E">>, <<"P", "L", "A", "T", "A", "F", "O", "R", "M", "A">>, <<"B", "U", "F", "F", "E", "R">>, <<"C", "A", "I", "U">>, <<"P", "L", "A", "T">>}

IsAudio(u) ==
  \/ \E t \in AudioTerms : Holds(u, t)
  \/ \E i \in 1..Len(u) : HoldsAt(u, <<"S", "O", "M">>, i) /\ ~WordAt(u, i + 3)
IsVideo(u) == \E t \in VideoTerms : Holds(u, t)
IsNetwork(u) == \E t \in NetworkTerms : Holds(u, t)
IsScoreboard(u) ==
  \/ Holds(u, <<"P", "L", "A", "C", "A", "R">>)
  \/ \E i \in 1..Len(u) : HoldsAt(u, <<"G", "C">>, i) /\ ~WordAt(u, i - 1) /\ ~WordAt(u, i + 2)

\* C15: normalize returns null for a null or empty input; otherwise it
\* decides on the upper-cased, trimmed input, so that the case of the input
\* does not matter: AUDIO if it holds an audio term, else VIDEO if it holds
\* a video term, else REDE if it holds a network term, else GC if it holds
\* a scoreboard term, else the upper-cased, trimmed input itself.
C15_FirstMatchWins ==
  normalized.done =>
    LET u == trim(toUpperCase(raw.text))
    IN /\ normalized.value =
            (IF raw.null \/ raw.text = <<>> THEN NullText
             ELSE IF IsAudio(u) THEN Text(<<"A", "U", "D", "I", "O">>)
             ELSE IF IsVideo(u) THEN Text(<<"V", "I", "D", "E", "O">>)
             ELSE IF IsNetwork(u) THEN Text(<<"R", "E", "D", "E">>)
             ELSE IF IsScoreboard(u) THEN Text(<<"G", "C">>)
             ELSE Text(u))
       /\ ~raw.null => normalized.value = normalizeCategory(Text(toUpperCase(raw.text)))

\* A lower-case input that holds an audio term and a video term has been
\* normalized to AUDIO.
C15_Witness ==
  /\ normalized.done
  /\ raw = Text(<<"a", "u", "d", "i", "o", " ", "t", "e", "l", "a">>)
  /\ IsAudio(toUpperCase(raw.text)) /\ IsVideo(toUpperCase(raw.text))
  /\ normalized.value = Text(<<"A", "U", "D", "I", "O">>)

\* ------------------------------------------------ the is_technical field

\* C16: is_technical of a stored message changes only when the message
\* write of a dismiss call is applied, only from true to false, and the
\* message write of a dismiss call is applied only to a message that no
\* earlier dismiss call has written: each message is written at most once.
C16_WrittenOnce ==
  [][\A m \in Msgs :
       /\ (msgTech[m] # "none" /\ msgTech'[m] # msgTech[m])
          => /\ msgTech[m] = "tech" /\ msgTech'[m] = "nontech"
             /\ \E v \in Views : call[v][m] = "msg" /\ call'[v][m] # "msg"
       /\ (\E v \in Views : call[v][m] = "msg" /\ call'[v][m] # "msg" /\ errLog' = errLog)
          => msgTech[m] = "tech"]_vars

\* ------------------------------------------------------- the subscriptions

\* The open listeners of a view.
ListenersOf(v) == {l \in listeners : l.view = v}

\* A mounted view holds exactly the listeners of its subscription effect on
\* the stream it is given, one of each kind; a view that is not mounted
\* holds none; the registry page holds its one listener or none.
OneListenerEach ==
  /\ \A v \in Views :
       /\ ListenersOf(v) = IF mounted[v] THEN Subscriptions(v, videoId[v]) ELSE {}
       /\ \A k \in Kinds(v) : Cardinality({l \in ListenersOf(v) : l.kind = k}) <= 1
  /\ ListenersOf("registry") \subseteq Subscriptions("registry", NoVideo)
  /\ Cardinality(ListenersOf("registry")) <= 1

\* C17: after every step each view holds at most one listener of each kind,
\* all on the stream it is given, and none once it is torn down; and no
\* step changes the state of a view that is torn down, or of a registry
\* page that is torn down.
C17_UnsubscribedOnTeardown ==
  [][/\ OneListenerEach'
     /\ \A v \in Views :
          (~mounted[v] /\ ~mounted'[v])
          => /\ allTechComments'[v] = allTechComments[v]
             /\ dismissed'[v] = dismissed[v]
             /\ v = "card" => UNCHANGED <<chartData, alertKey, techSnapshotReady>>
     /\ (ListenersOf("registry") = {} /\ ListenersOf("registry")' = {})
        => UNCHANGED <<lives, connected, orderRef>>]_vars

\* Both views have been given another stream; the detail view has then been
\* torn down, the registry page too, while the stream of the model has
\* technical messages to deliver.
C17_Witness ==
  /\ mounted["card"] /\ videoId["card"] # TheVideo
  /\ ~mounted["detail"] /\ videoId["detail"] # TheVideo
  /\ ListenersOf("registry") = {}
  /\ \E m \in Msgs : msgTech[m] = "tech"

\* ------------------------------------------------------------ convergence

\* The minute and total of the points of a series.
Buckets(data) == [i \in 1..Len(data) |-> [minute |-> data[i].minute, total |-> data[i].total]]

\* Nothing is left to deliver to the card: it holds the current result of
\* the technical query and the current buckets.
Delivered ==
  /\ mounted["card"]
  /\ techSnapshotReady
  /\ allTechComments["card"] = TechDocs
  /\ Buckets(chartData) = Buckets(MinutePoints)

\* The stored technical messages that the card's override set does not hold.
StoredVisible == {m \in Msgs : msgTech[m] = "tech" /\ m \notin dismissed["card"]}

\* The list is in descending order of ts.
NewestFirst(list) ==
  \A i \in 1..(Len(list) - 1) : localeCompare(MsgTs(list[i]), MsgTs(list[i + 1])) >= 0

\* Every category of the messages of the set has its group.
EveryCategory(breakdown, shown) ==
  \A x \in shown :
    Truthy(CommentCategory[x])
    => \E k \in 1..Len(breakdown) : breakdown[k].category = CommentCategory[x]

\* C18: once everything is delivered, what the card derives is determined by
\* the store and the override set alone, whatever the order of the
\* deliveries and of the dismiss calls has been: the visible list is the
\* stored technical messages without the overridden ones, newest first; the
\* count is their number; the breakdown groups them; the chart has the
\* stored buckets with their totals and, as technical, the visible messages
\* of each minute.
C18_ViewOfStoreAndOverrides ==
  Delivered =>
    /\ ListOf(visibleComments("card"), StoredVisible)
    /\ NewestFirst(visibleComments("card"))
    /\ GroupsOf(categoryBreakdown("card"), StoredVisible)
    /\ EveryCategory(categoryBreakdown("card"), StoredVisible)
    /\ Buckets(chartDataDisplay) = Buckets(MinutePoints)
    /\ TechnicalOf(chartDataDisplay, StoredVisible)

\* Everything is delivered after a dismiss whose write was rejected: the
\* card's chartData has the optimistic decrement and the store has not.
C18_Witness ==
  /\ Delivered
  /\ errLog = 1
  /\ dismissed["card"] # {}
  /\ Len(chartData) = 2
  /\ chartData # MinutePoints

\* ---------------------------------------------------- the optimistic chart

\* The series after has the points of the series before, with the same
\* minutes and totals; its technical value is lower by 1 at minute mk, with
\* a floor of 0 if floored, and never negative; elsewhere it is the same.
LoweredAt(before, after, mk, floored) ==
  /\ Len(after) = Len(before)
  /\ \A j \in 1..Len(before) :
       /\ after[j].minute = before[j].minute
       /\ after[j].total = before[j].total
       /\ after[j].technical =
            IF before[j].minute # mk THEN before[j].technical
            ELSE IF floored THEN Max(0, before[j].technical - 1)
            ELSE before[j].technical - 1
       /\ after[j].technical >= 0 \/ before[j].minute # mk

\* C19: the step in which the card starts the dismiss of m leaves every
\* point of the chart series in place with its minute and its total, lowers
\* the technical value shown for the minute of m by exactly 1, not below 0,
\* and leaves the technical value of every other minute as it was; the
\* card's own copy of the buckets has the technical value of that minute
\* lowered by 1 with a floor of 0.
C19_DismissLowersOneMinute ==
  [][\A m \in Msgs :
       (call["card"][m] = "idle" /\ call'["card"][m] # "idle")
       => /\ LoweredAt(ChartDisplay(chartData, visibleComments("card")),
                       ChartDisplay(chartData', visibleComments("card")'),
                       minuteKeyFromTs(MsgTs(m)), FALSE)
          /\ LoweredAt(chartData, chartData', minuteKeyFromTs(MsgTs(m)), TRUE)]_vars

\* The card has just started a dismiss, no write applied yet: its chart has
\* two buckets, the minute of the dismissed message still shows another
\* technical message, and the card's copy of that bucket is at the floor.
C19_Witness ==
  \E m \in dismissed["card"] :
    /\ call["card"][m] = FirstWrite
    /\ msgTech[m] = "tech"
    /\ Len(chartDataDisplay) = 2
    /\ \E j \in 1..Len(chartDataDisplay) :
         /\ chartDataDisplay[j].minute = minuteKeyFromTs(MsgTs(m))
         /\ chartDataDisplay[j].technical = 1
         /\ chartData[j].technical = 0

\* -------------------------------------------------- coherence of the views

\* The history card once its listener has delivered: techComments is the
\* current result of the technical query, live the current stream document.
\* Its count is live.technical_comments, its breakdown is computed over
\* techComments, its chart is buildChartData(techComments).
historyTechCount == live.technical_comments
historyBreakdown == Breakdown(TechDocs)
historyTechnicalAt(mk) == techByMinute(TechDocs, mk)

\* The technical value of minute mk in the detail view's chart once its
\* chart listener has delivered: buildChartData counts the stored messages
\* with is_technical that the view's override set does not hold.
detailTechnicalAt(mk) ==
  Cardinality({m \in Msgs : /\ msgTech[m] = "tech"
                            /\ m \notin dismissed["detail"]
                            /\ minuteKeyFromTs(MsgTs(m)) = mk})

\* A breakdown as a mapping from category to count.
BreakdownMap(breakdown) ==
  {<<breakdown[k].category, breakdown[k].count>> : k \in 1..Len(breakdown)}

\* Both views are mounted, every write of every dismiss call is applied and
\* every listener has delivered the current state of the store.
AllSettled ==
  /\ Settled
  /\ chartData = MinutePoints
  /\ mounted["detail"]
  /\ Range(allTechComments["detail"]) = Range(TechDocs)
  /\ \A m \in Msgs : call["detail"][m] = "idle"

\* C20: with everything settled after a dismiss, the card, the detail view
\* and the history card show the same technical count (hence the same
\* rate over the same total), the same breakdown, and the same technical
\* value in the chart for the minute of every dismissed message.
C20_ViewsCoherent ==
  (AllSettled /\ dismissed["card"] \cup dismissed["detail"] # {})
  => /\ Len(visibleComments("card")) = Len(visibleTech("detail"))
     /\ Len(visibleComments("card")) = historyTechCount
     /\ BreakdownMap(categoryBreakdown("card")) = BreakdownMap(categoryBreakdown("detail"))
     /\ BreakdownMap(categoryBreakdown("card")) = BreakdownMap(historyBreakdown)
     /\ \A m \in dismissed["card"] \cup dismissed["detail"] :
          \A j \in 1..Len(chartDataDisplay) :
            chartDataDisplay[j].minute = minuteKeyFromTs(MsgTs(m))
            => /\ chartDataDisplay[j].technical = detailTechnicalAt(chartDataDisplay[j].minute)
               /\ chartDataDisplay[j].technical = historyTechnicalAt(chartDataDisplay[j].minute)

\* ------------------------------------------- the detail view's dismiss

\* C21: a dismiss call of the detail view for a message whose ts gives a
\* minute key returns, none of its writes rejected, from the write that
\* decrements technical of that minute's bucket, as a dismiss call of the
\* stream card does.
C21_DetailDismissWritesMinute ==
  [][\A m \in Msgs :
       (/\ call["detail"][m] # "idle"
        /\ call'["detail"][m] = "idle"
        /\ errLog' = errLog
        /\ minuteKeyFromTs(MsgTs(m)) # NoKey)
       => /\ call["detail"][m] = "minute"
          /\ minutes'[minuteKeyFromTs(MsgTs(m))].technical =
               minutes[minuteKeyFromTs(MsgTs(m))].technical - 1]_vars

\* ------------------------------------------------ what a dismiss writes

\* The step is the acknowledgement of the write that the card's dismiss
\* call of m awaits at the stage.
Acknowledged(m, stage) ==
  /\ call["card"][m] = stage
  /\ call'["card"][m] # stage
  /\ errLog' = errLog

C23_MalformedTsDropped ==
  builtChart.done =>
    /\ ~builtChart.threw
    /\ \A i \in 1..Len(chartComments) :
         ValidDate(chartComments[i].ts)
         => \E k \in 1..Len(builtChart.points) :
              builtChart.points[k].minute = minuteKeyFromTs(chartComments[i].ts)
    /\ \A k \in 1..Len(builtChart.points) :
         /\ builtChart.points[k].minute # NoKey
         /\ builtChart.points[k].total =
              Cardinality({i \in 1..Len(chartComments) :
                             /\ ValidDate(chartComments[i].ts)
                             /\ minuteKeyFromTs(chartComments[i].ts)
                                  = builtChart.points[k].minute})

\* ------------------------------------------------------------------ recovery

\* The number of stored messages that are technical.
StoredTechnical == Cardinality({m \in Msgs : msgTech[m] = "tech"})

\* C24: a dismiss call that awaits its message write is followed by
\* is_technical = false on the message, and one that awaits its stream
\* write by a technical_comments that counts the technical messages again;
\* a card whose snapshot is behind the store receives the store's state;
\* a registry page whose listener has ended listens and is online again.
C24_FaultsRecovered ==
  /\ \A m \in Msgs : (call["card"][m] = "msg") ~> (msgTech[m] = "nontech")
  /\ \A m \in Msgs : (call["card"][m] = "live")
                       ~> (live.technical_comments = StoredTechnical)
  /\ (mounted["card"] /\ allTechComments["card"] # TechDocs)
       ~> (allTechComments["card"] = TechDocs)
  /\ (~subscribed) ~> (subscribed /\ connected)

\* ------------------------------------------------- the connectivity indicator

\* C25: the registry page starts offline; it goes online only in a step of
\* its listener that is not the listener's error, and every delivery (a
\* step that is not the error, a hidden card or the passing of time, and
\* any step that changes the list or the order) leaves it online; it goes
\* offline only in the step in which the listener reports its error, and
\* that step leaves it offline and keeps the list and the order; hiding a
\* card and the passing of time leave the indicator as it is.
C25_OnlineIffLastEventSnapshot ==
  /\ ~connected
  /\ [][/\ (connected' /\ ~connected)
           => (subscribed /\ subscribed' /\ hidden' = hidden /\ now' = now)
        /\ (lives' # lives \/ orderRef' # orderRef) => connected'
        /\ (subscribed' /\ hidden' = hidden /\ now' = now) => connected'
        /\ (connected /\ ~connected') => (subscribed /\ ~subscribed')
        /\ (subscribed /\ ~subscribed')
           => (~connected' /\ lives' = lives /\ orderRef' = orderRef)
        /\ (hidden' # hidden \/ now' # now) => connected' = connected]_vars

\* The page is offline after an error, with the list of a snapshot that had
\* put it online.
C25_Witness ==
  /\ ~connected
  /\ ~subscribed
  /\ lives # <<>>
  /\ active # <<>>

\* --------------------------------------------------- the alert and dismiss

\* C26: while the card stays mounted its alert counter never decreases, and
\* a step after which the card's snapshot holds no message it did not hold
\* before (a dismiss, a snapshot whose change entries are removals only)
\* leaves the counter as it is.
C26_DismissNeverAlerts ==
  [][(alertKey' # alertKey /\ mounted["card"] /\ mounted'["card"])
     => /\ alertKey' > alertKey
        /\ ~(Range(allTechComments'["card"]) \subseteq Range(allTechComments["card"]))]_vars

\* The card has alerted once, for an arrival, and has since received the
\* snapshot from which a dismissed message is gone.
C26_Witness ==
  /\ mounted["card"]
  /\ alertKey = 1
  /\ techSnapshotReady
  /\ allTechComments["card"] = TechDocs
  /\ TechDocs # <<>>
  /\ \E m \in dismissed["card"] :
       msgTech[m] = "nontech" /\ m \notin Range(allTechComments["card"])

\* ------------------------------------------------ the alert of the limited card

\* C27: the alert counter of the card with the limited query changes only
\* in a step after which the card's snapshot holds a message newer than
\* every message of the snapshot before, and never when the snapshot
\* before was empty: not on the first snapshot, not in a dismiss, not when
\* a dismissed message leaves the query and an older one takes its place.
C27_AlertOnlyOnArrival ==
  [][windowAlertKey' # windowAlertKey
     => /\ windowTechComments # {}
        /\ \E m \in windowTechComments' : \A o \in windowTechComments : m > o]_vars

\* ------------------------------------------------- the registry's order list

\* C28: the registry's order list holds no stream identifier twice and
\* only grows at its end: every step leaves each recorded identifier at the
\* index it had, whether the snapshot lists the stream or not, and a stream
\* that was missing from the displayed list and is listed again stands,
\* relative to every other displayed stream, where the order list has had
\* it since its first observation.
C28_OrderListAppendOnly ==
  [][/\ \A i, j \in 1..Len(orderRef') : orderRef'[i] = orderRef'[j] => i = j
     /\ Len(orderRef') >= Len(orderRef)
     /\ \A i \in 1..Len(orderRef) : orderRef'[i] = orderRef[i]
     /\ \A id \in Range(orderRef) \ Range(Ids(lives)) :
          \A o \in Range(orderRef) :
            (id \in Range(Ids(lives')) /\ o \in Range(Ids(lives')) /\ o # id)
            => (indexOf(Ids(lives'), id) < indexOf(Ids(lives'), o)
                <=> indexOf(orderRef, id) < indexOf(orderRef, o))]_vars

\* C28 witness: stream 1 was observed second of three and is missing from
\* the current snapshot; its entry is still between the two others.
C28_Witness ==
  /\ orderRef = <<2, 1, 3>>
  /\ Ids(lives) = <<2, 3>>

\* ------------------------------------------------- the counters' lower bound

\* C29: the stream's stored counters are never negative: technical_comments,
\* every entry of issue_counts and the technical count of every minute
\* bucket are at least 0 in every state reached by dismiss calls on a
\* stream whose counters started equal to the counts of its messages.
C29_CountersNonNegative ==
  /\ live.technical_comments >= 0
  /\ \A k \in IssueKeys : live.issue_counts[k] >= 0
  /\ \A mk \in MinuteKeys : minutes[mk].technical >= 0

\* ----------------------------------------------- the active and ended lists

\* Both pages show the current stream collection at the current instant.
BothDelivered ==
  /\ Range(lives) = {ToLive(livesDocs[i]) : i \in 1..Len(livesDocs)}
  /\ historyLives = EndedList(livesDocs)
  /\ active = ActiveList(lives, hidden, now)

\* The streams of a list of Live objects.
Listed(list) == Range(Ids(list))

\* The ended list holds the streams with status ended or with ended_at set,
\* newest first by ended_at, by started_at where ended_at is null; the
\* active list holds only streams with status active that are not hidden.
ListsAsDescribed ==
  /\ \A i \in 1..Len(livesDocs) :
       livesDocs[i].id \in Listed(historyLives)
       <=> \/ ToHistoryLive(livesDocs[i]).status = "ended"
           \/ livesDocs[i].ended_at \notin {NullDate, NoDate}
  /\ \A i, j \in 1..Len(historyLives) :
       i < j => localeCompare(endTime(historyLives[i]), endTime(historyLives[j])) >= 0
  /\ \A i \in 1..Len(active) :
       active[i].status = "active" /\ active[i].video_id \notin hidden

\* C30 as stated: for the same stream collection and the same instant no
\* stream is in both the home page's active list and the history page's
\* ended list, and the two lists are as described.
C30_ActiveAndEndedDisjoint ==
  BothDelivered => /\ Listed(active) \cap Listed(historyLives) = {}
                   /\ ListsAsDescribed

\* C30 amended: for the same stream collection and the same instant a
\* stream is in both lists only if its document has status active and
\* ended_at set, and the two lists are as described.
C30_DisjointButActiveWithEndedAt ==
  BothDelivered
  => /\ \A i \in 1..Len(livesDocs) :
          livesDocs[i].id \in Listed(active) \cap Listed(historyLives)
          => /\ livesDocs[i].status = "active"
             /\ livesDocs[i].ended_at \notin {NullDate, NoDate}
     /\ ListsAsDescribed

\* C30 witness: both pages show a collection of two streams; the history
\* page lists both, the later ended first, and the home page lists the one
\* with status active.
C30_Witness ==
  /\ BothDelivered
  /\ Len(historyLives) = 2
  /\ endTime(historyLives[1]) # endTime(historyLives[2])
  /\ Listed(active) \cap Listed(historyLives) # {}

====
